---- MODULE Spec2Model ----
(***************************************************************************)
(* A model of the cloude micro-VMM (src/vmm) and of its helpers.           *)
(*                                                                         *)
(* Representation notes.                                                   *)
(*  - Guest-physical addresses and sizes of address ranges are counted in  *)
(*    units of AddrUnit = 16 bytes, because TLC's integers are 32 bits     *)
(*    wide and MMIO_GAP_START (0xD0000000) is not.  A byte address a is    *)
(*    the model value a / 16; every address the VMM computes is a          *)
(*    multiple of 16.  Lengths handed to guestusize_to_str are bytes.      *)
(*  - A u32 is kept at its real width as two 16-bit limbs [hi, lo].        *)
(*  - A Rust String is a sequence of one-character strings.                *)
(***************************************************************************)
EXTENDS Integers, Sequences, FiniteSets, TLC

----------------------------------------------------------------------------
(* Bounds of the model (not program constants).                            *)

\* add_net_device calls whose outcome is recorded
MaxAddCalls == 3
\* vCPUs the VMM's list may hold in total
MaxVcpus == 2
\* allocate calls on a stand-alone IrqAllocator
MaxIrqAllocs == 7
\* calls of VirtioNetDevice::activate
MaxActivateCalls == 3
\* bytes of the host's stdin stream
MaxStdinBytes == 66
\* bytes the guest writes to THR, and bytes handed to one write_all
MaxThrBytes == 7
MaxWriteLen == 3

----------------------------------------------------------------------------
(* Strings.                                                                *)

HexChars == <<"0","1","2","3","4","5","6","7","8","9","a","b","c","d","e","f">>

\* `{}` of an unsigned integer: decimal, no padding.
RECURSIVE FmtDec(_)
FmtDec(n) ==
    IF n < 10 THEN <<HexChars[n + 1]>>
    ELSE FmtDec(n \div 10) \o <<HexChars[(n % 10) + 1]>>

\* `{:x}` of an unsigned integer: lower-case hex, no padding.
RECURSIVE FmtLowerHex(_)
FmtLowerHex(n) ==
    IF n < 16 THEN <<HexChars[n + 1]>>
    ELSE FmtLowerHex(n \div 16) \o <<HexChars[(n % 16) + 1]>>

----------------------------------------------------------------------------
(* Addresses.                                                              *)

AddrUnit == 2^4

\* 1 << 32, in address units
MMIO_GAP_END == 2^28
\* 768 << 20, in address units
MMIO_GAP_SIZE == 768 * 2^16
MMIO_GAP_START == MMIO_GAP_END - MMIO_GAP_SIZE

\* A window of three pages instead of two.
MMIO_ALLOCATOR_SIZE_three_pages == 12288 \div AddrUnit

\* The second argument of AddressAllocator::new in VMM::new (0x2000 bytes).
MMIO_ALLOCATOR_SIZE == 8192 \div AddrUnit
\* The size and the alignment add_net_device asks for (0x1000 bytes).
NET_MMIO_SIZE == 4096 \div AddrUnit
NET_MMIO_ALIGN == 4096 \div AddrUnit

\* `{:#x}` of a byte address kept in address units: the byte address is
\* 16 * a, whose hex digits are those of a followed by one 0.
FmtAddrHex(a) ==
    <<"0", "x">> \o (IF a = 0 THEN <<"0">> ELSE FmtLowerHex(a) \o <<"0">>)

\* RangeInclusive: the units start..end, both included.
RangeInclusive(s, e) == [start |-> s, end |-> e]

\* RangeInclusive::len, in bytes.
RangeLen(r) == (r.end - r.start + 1) * AddrUnit

RangesOverlap(r1, r2) == r1.start <= r2.end /\ r2.start <= r1.end

----------------------------------------------------------------------------
(* u32 at its real width.                                                  *)

Limb == 2^16

U32(hi, lo) == [hi |-> hi, lo |-> lo]
U32Of(n) == U32(n \div Limb, n % Limb)
U32_MAX == U32(Limb - 1, Limb - 1)

\* Defined for the values below 2^31 only.
U32ToNat(x) == x.hi * Limb + x.lo

\* u32::checked_add(1): None on overflow.
NoneU32 == [hi |-> -1, lo |-> -1]
CheckedAdd1(x) ==
    IF x.lo < Limb - 1 THEN U32(x.hi, x.lo + 1)
    ELSE IF x.hi < Limb - 1 THEN U32(x.hi + 1, 0)
    ELSE NoneU32

\* u32::wrapping_add(1)
WrappingAdd1(x) ==
    IF x.lo < Limb - 1 THEN U32(x.hi, x.lo + 1)
    ELSE IF x.hi < Limb - 1 THEN U32(x.hi + 1, 0)
    ELSE U32(0, 0)

----------------------------------------------------------------------------
(* IrqAllocator (src/vmm/src/irq_allocator.rs).                            *)

IrqAllocator_new(start) == start

\* A wrapping allocator: what allocate would be with wrapping_add.
IrqAllocator_allocate_wrapping(next) ==
    [panic |-> FALSE, irq |-> next, next |-> WrappingAdd1(next)]

\* allocate: the value returned and the counter afterwards; panic when
\* checked_add(1) is None (the expect fires before anything is returned or
\* stored).
IrqAllocator_allocate(next) ==
    IF CheckedAdd1(next) = NoneU32
    THEN [panic |-> TRUE, irq |-> NoneU32, next |-> next]
    ELSE [panic |-> FALSE, irq |-> next, next |-> CheckedAdd1(next)]

IrqAllocator_peek(next) == next

----------------------------------------------------------------------------
(* vm_allocator::AddressAllocator as VMM uses it.                          *)

\* A window measured back from MMIO_GAP_END by one page instead of starting
\* at MMIO_GAP_START.
MmioWindow_from_gap_end ==
    RangeInclusive(MMIO_GAP_END - NET_MMIO_SIZE,
                   MMIO_GAP_END - NET_MMIO_SIZE + MMIO_ALLOCATOR_SIZE - 1)

\* The window given to AddressAllocator::new(MMIO_GAP_START, 0x2000).
MmioWindow == RangeInclusive(MMIO_GAP_START, MMIO_GAP_START + MMIO_ALLOCATOR_SIZE - 1)

AllocError == [start |-> -1, end |-> -1]

\* The starts an allocation of `size` aligned to `align` may take, given the
\* ranges already allocated.
FreeStarts(allocated, size, align) ==
    { a \in MmioWindow.start .. MmioWindow.end :
        /\ a % align = 0
        /\ a + size - 1 <= MmioWindow.end
        /\ \A r \in allocated : ~RangesOverlap(r, RangeInclusive(a, a + size - 1)) }

SetMin(S) == CHOOSE x \in S : \A y \in S : x <= y

\* allocate(size, align, AllocPolicy::FirstMatch): the lowest fitting range,
\* or an error when none is left.
AddressAllocator_allocate(allocated, size, align) ==
    IF FreeStarts(allocated, size, align) = {} THEN AllocError
    ELSE LET a == SetMin(FreeStarts(allocated, size, align))
         IN  RangeInclusive(a, a + size - 1)

----------------------------------------------------------------------------
(* VirtioNetDevice (src/vmm/src/devices/virtio/net/device.rs).             *)

\* A u64 used as a bit mask is the set of the positions of its 1 bits.
Shl1(bit) == IF bit \in 0 .. 63 THEN {bit} ELSE {}
BitOr(a, b) == a \cup b

VIRTIO_F_RING_EVENT_IDX == 29
VIRTIO_F_VERSION_1 == 32
VIRTIO_F_IN_ORDER == 35

VIRTIO_NET_F_CSUM == 0
VIRTIO_NET_F_GUEST_CSUM == 1
VIRTIO_NET_F_GUEST_TSO4 == 7
VIRTIO_NET_F_GUEST_TSO6 == 8
VIRTIO_NET_F_GUEST_UFO == 10
VIRTIO_NET_F_HOST_TSO4 == 11
VIRTIO_NET_F_HOST_TSO6 == 12
VIRTIO_NET_F_HOST_UFO == 14

\* The feature word with GUEST_UFO left out of the disjunction.
VIRTIO_NET_DEVICE_FEATURES_without_guest_ufo ==
    BitOr(Shl1(VIRTIO_F_VERSION_1),
    BitOr(Shl1(VIRTIO_F_RING_EVENT_IDX),
    BitOr(Shl1(VIRTIO_F_IN_ORDER),
    BitOr(Shl1(VIRTIO_NET_F_CSUM),
    BitOr(Shl1(VIRTIO_NET_F_GUEST_CSUM),
    BitOr(Shl1(VIRTIO_NET_F_GUEST_TSO4),
    BitOr(Shl1(VIRTIO_NET_F_GUEST_TSO6),
    BitOr(Shl1(VIRTIO_NET_F_HOST_TSO4),
    BitOr(Shl1(VIRTIO_NET_F_HOST_TSO6),
          Shl1(VIRTIO_NET_F_HOST_UFO))))))))))

VIRTIO_NET_DEVICE_FEATURES ==
    BitOr(Shl1(VIRTIO_F_VERSION_1),
    BitOr(Shl1(VIRTIO_F_RING_EVENT_IDX),
    BitOr(Shl1(VIRTIO_F_IN_ORDER),
    BitOr(Shl1(VIRTIO_NET_F_CSUM),
    BitOr(Shl1(VIRTIO_NET_F_GUEST_CSUM),
    BitOr(Shl1(VIRTIO_NET_F_GUEST_TSO4),
    BitOr(Shl1(VIRTIO_NET_F_GUEST_TSO6),
    BitOr(Shl1(VIRTIO_NET_F_GUEST_UFO),
    BitOr(Shl1(VIRTIO_NET_F_HOST_TSO4),
    BitOr(Shl1(VIRTIO_NET_F_HOST_TSO6),
          Shl1(VIRTIO_NET_F_HOST_UFO)))))))))))

VIRTIO_NET_QUEUE_SIZE == 256

\* Queue::new(guest_memory, max_size)
Queue_new(max_size) == [max_size |-> max_size, size |-> max_size]

KB_MULT == 1024
MB_MULT == KB_MULT * 1024
GB_MULT == MB_MULT * 1024

\* guestusize_to_str with the tests in the wrong order (K first).
guestusize_to_str_k_first(size) ==
    IF size % KB_MULT = 0 THEN FmtDec(size \div KB_MULT) \o <<"K">>
    ELSE FmtDec(size)

guestusize_to_str(size) ==
    IF size % GB_MULT = 0 THEN FmtDec(size \div GB_MULT) \o <<"G">>
    ELSE IF size % MB_MULT = 0 THEN FmtDec(size \div MB_MULT) \o <<"M">>
    ELSE IF size % KB_MULT = 0 THEN FmtDec(size \div KB_MULT) \o <<"K">>
    ELSE FmtDec(size)

CmdlinePrefix ==
    <<" ","v","i","r","t","i","o","_","m","m","i","o",".",
      "d","e","v","i","c","e","=">>

\* cmdline_string of a device with this range and IRQ.
cmdline_string(mmio_range, irq) ==
    CmdlinePrefix \o guestusize_to_str(RangeLen(mmio_range)) \o <<"@">>
        \o FmtAddrHex(mmio_range.start) \o <<":">> \o FmtDec(irq)

----------------------------------------------------------------------------
(* The VMM (src/vmm/src/lib.rs).                                           *)

VARIABLES
    memslots,               \* memory regions registered with KVM by new
    vcpus,                  \* VMM.vcpus
    virtio_net,             \* VMM.virtio_net
    cmdline_components,     \* VMM.cmdline_components
    virtio_mmio_allocator,  \* the ranges VMM.virtio_mmio_allocator handed out
    irq_allocator,          \* VMM.irq_allocator.next
    running,                \* VMM.running
    vcpu_handles,           \* VMM.vcpu_handles
    vcpu_thread_ids,        \* VMM.vcpu_thread_ids
    threads,                \* the vCPU threads start_vcpus spawned
    main_pc,                \* where the thread owning the VMM is
    sigusr1,                \* the process's disposition of SIGUSR1
    kernel_cmdline,         \* the fragments the kernel was last loaded with
    aborted,                \* a panic unwound the thread owning the VMM
    \* history of the calls made on the VMM
    last_call, configured, stop_called, alloc_results

vmm_vars ==
    <<memslots, vcpus, virtio_net, cmdline_components, virtio_mmio_allocator,
      irq_allocator, running, vcpu_handles, vcpu_thread_ids, threads, main_pc,
      sigusr1, kernel_cmdline, aborted, last_call, configured, stop_called,
      alloc_results>>

NoDevice == [mmio_range |-> AllocError, irq |-> -1]
NotLoaded == <<<<"not loaded">>>>
NoCall == [op |-> "new", ret |-> "Ok", pre_configured |-> FALSE,
           vcpus_unchanged |-> TRUE]

GiB == 2^30 \div AddrUnit

\* The memory_size arguments of VMM::new the model draws from: small ones,
\* the one of bin/test.rs, the ones around the start of the MMIO gap and the
\* ones up to and past its end.
MemorySizes ==
    {NET_MMIO_SIZE, GiB \div 2, GiB, 2 * GiB,
     MMIO_GAP_START - NET_MMIO_SIZE, MMIO_GAP_START,
     MMIO_GAP_START + NET_MMIO_SIZE, MMIO_GAP_END, MMIO_GAP_END + GiB}

\* configure_memory: one region at guest address 0 of the size asked for,
\* registered as it is.
configure_memory(memory_size) ==
    {[slot |-> 0, guest_phys_addr |-> 0, memory_size |-> memory_size]}

\* VMM::new(input, output, memory_size) returning Ok.
VmmNew(memory_size) ==
    /\ memslots = configure_memory(memory_size)
    /\ vcpus = <<>>
    /\ virtio_net = NoDevice
    /\ cmdline_components = <<>>
    /\ virtio_mmio_allocator = {}
    /\ irq_allocator = IrqAllocator_new(U32Of(5))
    /\ running = TRUE
    /\ vcpu_handles = <<>>
    /\ vcpu_thread_ids = <<>>
    /\ threads = <<>>
    /\ main_pc = "idle"
    /\ sigusr1 = "default"
    /\ kernel_cmdline = NotLoaded
    /\ aborted = FALSE
    /\ last_call = NoCall
    /\ configured = FALSE
    /\ stop_called = FALSE
    /\ alloc_results = <<>>

\* The VMM as bin/test.rs creates it: 1024 MiB of memory.
VmmInit == VmmNew(GiB)

Call(op, ret) ==
    [op |-> op, ret |-> ret, pre_configured |-> configured,
     vcpus_unchanged |-> TRUE]

\* add_net_device.  new_ok: whether VirtioNetDevice::new (eventfd,
\* register_irqfd) succeeds.
add_net_device(new_ok) ==
    LET allocated_range ==
            AddressAllocator_allocate(virtio_mmio_allocator, NET_MMIO_SIZE,
                                      NET_MMIO_ALIGN)
        irq == IrqAllocator_allocate(irq_allocator)
        net == [mmio_range |-> allocated_range, irq |-> U32ToNat(irq.irq)]
    IN  /\ main_pc = "idle" /\ ~aborted
        /\ Len(alloc_results) < MaxAddCalls
        /\ IF allocated_range = AllocError
           THEN /\ alloc_results' = Append(alloc_results, AllocError)
                /\ last_call' = Call("add_net_device", "AddressAllocation")
                /\ UNCHANGED <<virtio_mmio_allocator, irq_allocator, virtio_net,
                               cmdline_components, aborted>>
           ELSE /\ alloc_results' = Append(alloc_results, allocated_range)
                /\ virtio_mmio_allocator' =
                       virtio_mmio_allocator \cup {allocated_range}
                /\ IF irq.panic
                   THEN /\ aborted' = TRUE
                        /\ last_call' = Call("add_net_device", "panic")
                        /\ UNCHANGED <<irq_allocator, virtio_net,
                                       cmdline_components>>
                   ELSE /\ irq_allocator' = irq.next
                        /\ aborted' = FALSE
                        /\ IF new_ok
                           THEN /\ cmdline_components' =
                                       Append(cmdline_components,
                                              cmdline_string(net.mmio_range, net.irq))
                                /\ virtio_net' = net
                                /\ last_call' = Call("add_net_device", "Ok")
                           ELSE /\ last_call' = Call("add_net_device", "Virtio")
                                /\ UNCHANGED <<virtio_net, cmdline_components>>
        /\ UNCHANGED <<memslots, vcpus, running, vcpu_handles, vcpu_thread_ids,
                       threads, main_pc, sigusr1, kernel_cmdline, configured,
                       stop_called>>

\* The num_vcpus arguments of configure the model draws from.
NumVcpus == {1, 2}

\* The vCPUs configure_vcpus pushes for the indexes 0..k-1.
RECURSIVE NewVcpus(_, _)
NewVcpus(k, net) ==
    IF k = 0 THEN <<>>
    ELSE Append(NewVcpus(k - 1, net), [index |-> k - 1, virtio_net |-> net])

\* configure_vcpus stopping after `pushed` vCPUs (all of them when
\* pushed = num_vcpus): Vcpu::new and the configure_* steps may each fail.
configure_vcpus(num_vcpus, pushed) ==
    vcpus \o NewVcpus(pushed, virtio_net)

\* configure.  fail_at = -1: kernel_setup fails; 0 .. num_vcpus - 1: the
\* bring-up of that vCPU (or, for 0, the MP-table or CPUID query) fails;
\* num_vcpus: nothing fails.  The VM gives a vCPU id once: on a VMM that
\* pushed a vCPU before, Vcpu::new fails for index 0 at the latest.
configure(num_vcpus, fail_at) ==
    /\ main_pc = "idle" /\ ~aborted
    /\ Len(vcpus) + num_vcpus <= MaxVcpus
    /\ (configured \/ vcpus # <<>>) => fail_at <= 0
    /\ IF fail_at = -1
       THEN /\ last_call' = Call("configure", "KernelLoad")
            /\ UNCHANGED <<vcpus, kernel_cmdline, configured>>
       ELSE /\ kernel_cmdline' = cmdline_components
            /\ vcpus' = configure_vcpus(num_vcpus, fail_at)
            /\ configured' = (configured \/ fail_at = num_vcpus)
            /\ last_call' =
                   [Call("configure",
                         IF fail_at = num_vcpus THEN "Ok" ELSE "Vcpu")
                    EXCEPT !.vcpus_unchanged = (vcpus' = vcpus)]
    /\ UNCHANGED <<memslots, virtio_net, cmdline_components,
                   virtio_mmio_allocator, irq_allocator, running, vcpu_handles,
                   vcpu_thread_ids, threads, main_pc, sigusr1, aborted,
                   stop_called, alloc_results>>

\* stop: takes &self while run holds &mut self, so it runs only while the
\* owner of the VMM is not inside run.
stop ==
    /\ main_pc = "idle" /\ ~aborted
    /\ running' = FALSE
    /\ stop_called' = TRUE
    /\ last_call' = Call("stop", "Ok")
    /\ UNCHANGED <<memslots, vcpus, virtio_net, cmdline_components,
                   virtio_mmio_allocator, irq_allocator, vcpu_handles,
                   vcpu_thread_ids, threads, main_pc, sigusr1, kernel_cmdline,
                   aborted, configured, alloc_results>>

----------------------------------------------------------------------------
(* run: the thread owning the VMM.                                         *)

api_history == <<last_call, configured, stop_called, alloc_results>>
devices == <<memslots, virtio_net, cmdline_components, virtio_mmio_allocator,
             irq_allocator, kernel_cmdline, aborted>>

\* run, up to start_vcpus, with the disposition of SIGUSR1 left alone.
run_begin_disposition_kept ==
    /\ main_pc = "idle" /\ ~aborted
    /\ running' = TRUE
    /\ main_pc' = "start_vcpus"
    /\ last_call' = Call("run", "running")
    /\ UNCHANGED <<vcpus, vcpu_handles, vcpu_thread_ids, threads, sigusr1,
                   devices, configured, stop_called, alloc_results>>

\* run, up to start_vcpus: store true into running, install the no-op
\* SIGUSR1 handler.
run_begin ==
    /\ main_pc = "idle" /\ ~aborted
    /\ running' = TRUE
    /\ sigusr1' = "handler"
    /\ main_pc' = "start_vcpus"
    /\ last_call' = Call("run", "running")
    /\ UNCHANGED <<vcpus, vcpu_handles, vcpu_thread_ids, threads, devices,
                   configured, stop_called, alloc_results>>

\* start_vcpus, one turn of its loop: the next vCPU is moved into a new
\* thread and the thread's handle is pushed.
start_vcpus_spawn ==
    /\ main_pc = "start_vcpus"
    /\ vcpus # <<>>
    /\ threads' = Append(threads, [pc |-> "start", sig |-> FALSE,
                                   vcpu |-> Head(vcpus)])
    /\ vcpu_handles' = Append(vcpu_handles, Len(threads) + 1)
    /\ vcpus' = Tail(vcpus)
    /\ UNCHANGED <<running, vcpu_thread_ids, main_pc, sigusr1, devices,
                   api_history>>

\* start_vcpus returns once the list is drained.
start_vcpus_done ==
    /\ main_pc = "start_vcpus"
    /\ vcpus = <<>>
    /\ main_pc' = "loop"
    /\ UNCHANGED <<vcpus, running, vcpu_handles, vcpu_thread_ids, threads,
                   sigusr1, devices, api_history>>

\* while running.load() { run_with_timeout(100) }, one turn: running is read
\* as true and the wait returns (an event or the timeout).
loop_wait ==
    /\ main_pc = "loop"
    /\ running
    /\ UNCHANGED vmm_vars

\* running is read as false: the loop is left for join_vcpus.
loop_exit ==
    /\ main_pc = "loop"
    /\ ~running
    /\ main_pc' = "join_signal"
    /\ UNCHANGED <<vcpus, running, vcpu_handles, vcpu_thread_ids, threads,
                   sigusr1, devices, api_history>>

InSeq(x, q) == \E i \in DOMAIN q : q[i] = x

\* join_vcpus, first half: with vcpu_thread_ids locked, pthread_kill sends
\* SIGUSR1 to every recorded thread (a thread that has finished takes none).
join_vcpus_signal ==
    /\ main_pc = "join_signal"
    /\ threads' = [t \in DOMAIN threads |->
                     IF InSeq(t, vcpu_thread_ids) /\ threads[t].pc # "done"
                     THEN [threads[t] EXCEPT !.sig = TRUE]
                     ELSE threads[t]]
    /\ main_pc' = "join_wait"
    /\ UNCHANGED <<vcpus, running, vcpu_handles, vcpu_thread_ids, sigusr1,
                   devices, api_history>>

\* join_vcpus, second half, one turn: handle.join() returns when that thread
\* has finished.
join_vcpus_join ==
    /\ main_pc = "join_wait"
    /\ vcpu_handles # <<>>
    /\ threads[Head(vcpu_handles)].pc = "done"
    /\ vcpu_handles' = Tail(vcpu_handles)
    /\ UNCHANGED <<vcpus, running, vcpu_thread_ids, threads, main_pc, sigusr1,
                   devices, api_history>>

\* run returning with the recorded ids left in place.
run_return_ids_kept ==
    /\ main_pc = "join_wait"
    /\ vcpu_handles = <<>>
    /\ threads' = <<>>
    /\ main_pc' = "idle"
    /\ last_call' = Call("run", "returned")
    /\ UNCHANGED <<vcpus, running, vcpu_handles, vcpu_thread_ids, sigusr1,
                   devices, configured, stop_called, alloc_results>>

\* join_vcpus clears the recorded ids and run returns.
run_return ==
    /\ main_pc = "join_wait"
    /\ vcpu_handles = <<>>
    /\ vcpu_thread_ids' = <<>>
    /\ threads' = <<>>
    /\ main_pc' = "idle"
    /\ last_call' = Call("run", "returned")
    /\ UNCHANGED <<vcpus, running, vcpu_handles, sigusr1, devices, configured,
                   stop_called, alloc_results>>

----------------------------------------------------------------------------
(* The vCPU threads (the closure of start_vcpus).                          *)

main_state == <<vcpus, vcpu_handles, main_pc, sigusr1, devices, api_history>>

\* thread_ids.lock().unwrap().push(pthread_self())
vcpu_record_tid(t) ==
    /\ threads[t].pc = "start"
    /\ vcpu_thread_ids' = Append(vcpu_thread_ids, t)
    /\ threads' = [threads EXCEPT ![t].pc = "check"]
    /\ UNCHANGED <<running, main_state>>

\* while vcpu_running.load(): go on to vcpu.run(), or finish; a signal still
\* pending for a thread that finishes is discarded with it.
vcpu_check(t) ==
    /\ threads[t].pc = "check"
    /\ threads' = [threads EXCEPT ![t] =
                      IF running THEN [@ EXCEPT !.pc = "enter"]
                      ELSE [@ EXCEPT !.pc = "done", !.sig = FALSE]]
    /\ UNCHANGED <<running, vcpu_thread_ids, main_state>>

\* vcpu.run() issues the run ioctl and the thread is in the hypervisor.
vcpu_enter(t) ==
    /\ threads[t].pc = "enter"
    /\ threads' = [threads EXCEPT ![t].pc = "kvm"]
    /\ UNCHANGED <<running, vcpu_thread_ids, main_state>>

\* The guest exits.  "io": HLT, IO_IN/OUT, MMIO: dispatched, vcpu.run()
\* returns.  "shutdown": SHUTDOWN, TRIPLE_FAULT or an unknown exit: running is
\* cleared, vcpu.run() returns.
vcpu_exit(t, kind) ==
    /\ threads[t].pc = "kvm"
    /\ threads' = [threads EXCEPT ![t].pc = "check"]
    /\ running' = IF kind = "shutdown" THEN FALSE ELSE running
    /\ UNCHANGED <<vcpu_thread_ids, main_state>>

\* SIGUSR1 reaches a thread that is in (or entering) the run ioctl: the
\* ioctl returns EINTR and vcpu.run() returns.
vcpu_eintr(t) ==
    /\ threads[t].pc = "kvm"
    /\ threads[t].sig
    /\ threads' = [threads EXCEPT ![t] = [@ EXCEPT !.pc = "check", !.sig = FALSE]]
    /\ UNCHANGED <<running, vcpu_thread_ids, main_state>>

\* SIGUSR1 reaches a thread that is executing user code: empty_signal_handler
\* runs and returns.
vcpu_signal_handler(t) ==
    /\ threads[t].pc # "kvm"
    /\ threads[t].sig
    /\ threads' = [threads EXCEPT ![t].sig = FALSE]
    /\ UNCHANGED <<running, vcpu_thread_ids, main_state>>

VcpuStep(t) ==
    /\ t \in DOMAIN threads
    /\ \/ vcpu_record_tid(t)
       \/ vcpu_check(t)
       \/ vcpu_enter(t)
       \/ vcpu_eintr(t)
       \/ vcpu_signal_handler(t)

MainStep ==
    \/ start_vcpus_spawn
    \/ start_vcpus_done
    \/ loop_wait
    \/ loop_exit
    \/ join_vcpus_signal
    \/ join_vcpus_join
    \/ run_return

----------------------------------------------------------------------------
(* A stand-alone IrqAllocator, as the unit tests of irq_allocator.rs use   *)
(* it: new(start), then allocate again and again.                          *)

VARIABLES
    ia_start,       \* the argument of IrqAllocator::new
    ia_next,        \* IrqAllocator.next
    ia_returned,    \* what the calls of allocate returned, in call order
    ia_panicked     \* an allocate call panicked

ia_vars == <<ia_start, ia_next, ia_returned, ia_panicked>>

\* The start values the model draws from: small ones, the ones of the unit
\* tests, the ones around a carry between the limbs and the last ones of u32.
IrqStarts ==
    {U32Of(n) : n \in {0, 5, 10, 32, Limb - 3, Limb - 1}}
        \cup {U32(1, Limb - 2), U32(Limb - 2, Limb - 4)}
        \cup {U32(Limb - 1, lo) : lo \in (Limb - 9) .. (Limb - 1)}

IaInit ==
    /\ ia_start \in IrqStarts
    /\ ia_next = IrqAllocator_new(ia_start)
    /\ ia_returned = <<>>
    /\ ia_panicked = FALSE

IaIdle ==
    /\ ia_start = U32Of(5)
    /\ ia_next = IrqAllocator_new(ia_start)
    /\ ia_returned = <<>>
    /\ ia_panicked = FALSE

ia_allocate ==
    LET r == IrqAllocator_allocate(ia_next)
    IN  /\ ~ia_panicked
        /\ Len(ia_returned) < MaxIrqAllocs
        /\ IF r.panic
           THEN /\ ia_panicked' = TRUE
                /\ UNCHANGED <<ia_start, ia_next, ia_returned>>
           ELSE /\ ia_next' = r.next
                /\ ia_returned' = Append(ia_returned, r.irq)
                /\ UNCHANGED <<ia_start, ia_panicked>>

----------------------------------------------------------------------------
(* cmdline_string applied to a device with a given range and IRQ.          *)

VARIABLES
    fmt_range,      \* VirtioNetDevice.mmio_range
    fmt_irq,        \* VirtioNetDevice.irq
    fmt_out         \* what cmdline_string returned, <<>> before the call

fmt_vars == <<fmt_range, fmt_irq, fmt_out>>

\* Range starts (address units) and lengths (bytes) the model draws from.
FmtStarts == {0, NET_MMIO_SIZE, MMIO_GAP_START, MMIO_GAP_START + NET_MMIO_SIZE,
              MMIO_GAP_END - NET_MMIO_SIZE, 43981 * 2^8}
FmtLens == {16, 1008, 1024, 1536, 4096, 8192, 2^20, 2^20 + 1024, 3 * 2^20,
            2^30, 2^30 + 2^20}
FmtIrqs == {0, 5, 6, 10, 23, 4096}

FmtInit ==
    /\ \E s \in FmtStarts : \E len \in FmtLens :
           fmt_range = RangeInclusive(s, s + (len \div AddrUnit) - 1)
    /\ fmt_irq \in FmtIrqs
    /\ fmt_out = <<>>

FmtIdle ==
    /\ fmt_range = RangeInclusive(MMIO_GAP_START, MMIO_GAP_START + NET_MMIO_SIZE - 1)
    /\ fmt_irq = 5
    /\ fmt_out = <<>>

fmt_cmdline_string ==
    /\ fmt_out = <<>>
    /\ fmt_out' = cmdline_string(fmt_range, fmt_irq)
    /\ UNCHANGED <<fmt_range, fmt_irq>>

----------------------------------------------------------------------------
(* One VirtioNetDevice under the guest's writes to its MMIO status         *)
(* register (mmio_write -> VirtioMmioDevice::write -> activate / reset).   *)

VARIABLES
    net_status,         \* virtio_cfg.device_status, as the set of its bits
    net_features,       \* virtio_cfg.device_features
    net_queues,         \* virtio_cfg.queues
    net_handler,        \* VirtioNetDevice.handler is Some
    net_taps_open,      \* TAP descriptors open (each owned by a handler)
    net_ioevents,       \* ioeventfds registered with KVM
    net_subscribers,    \* handlers added to the event manager
    net_activate_calls, \* calls of activate so far
    net_panicked        \* a panic unwound the vCPU thread inside activate

net_vars == <<net_status, net_features, net_queues, net_handler, net_taps_open, net_ioevents,
              net_subscribers, net_activate_calls, net_panicked>>

\* VirtioNetDevice::new: two queues, no handler; the status register is 0.
NetInit ==
    /\ net_status = {}
    /\ net_features = VIRTIO_NET_DEVICE_FEATURES
    /\ net_queues = <<Queue_new(VIRTIO_NET_QUEUE_SIZE),
                      Queue_new(VIRTIO_NET_QUEUE_SIZE)>>
    /\ net_handler = FALSE
    /\ net_taps_open = 0
    /\ net_ioevents = 0
    /\ net_subscribers = 0
    /\ net_activate_calls = 0
    /\ net_panicked = FALSE

\* activate.  tap_ok: setup_tap succeeds.  ioevent_fail_at: the index of the
\* queue whose eventfd or register_ioevent fails (-1: none).  The result is
\* the device after the call.
activate(dev, tap_ok, ioevent_fail_at) ==
    IF ~tap_ok THEN [dev EXCEPT !.ret = "Err"]
    ELSE IF ioevent_fail_at \in 0 .. Len(dev.queues) - 1
    THEN \* the `?` drops the TAP; the ioevents registered so far stay
         [dev EXCEPT !.ret = "Err", !.ioevents = @ + ioevent_fail_at]
    ELSE IF Len(dev.queues) # 2
    THEN \* try_into().expect("There should be 2 queues")
         [dev EXCEPT !.ret = "panic", !.ioevents = @ + Len(dev.queues)]
    ELSE \* setup_handler removes both queues; handler = Some; register_handler
         [dev EXCEPT !.ret = "Ok", !.ioevents = @ + Len(dev.queues),
                     !.queues = Tail(Tail(@)),
                     !.handler = TRUE, !.taps_open = @ + 1,
                     !.subscribers = @ + 1]

NetDev ==
    [queues |-> net_queues, handler |-> net_handler, taps_open |-> net_taps_open,
     ioevents |-> net_ioevents, subscribers |-> net_subscribers, ret |-> "none"]

\* The values the guest writes to the status register.
StatusWrites ==
    { {}, {"ACKNOWLEDGE"}, {"ACKNOWLEDGE", "DRIVER"},
      {"ACKNOWLEDGE", "DRIVER", "FEATURES_OK"},
      {"ACKNOWLEDGE", "DRIVER", "FEATURES_OK", "DRIVER_OK"},
      {"FAILED"} }

\* mmio_write at the status register.  The transport follows the handshake
\* of VIRTIO 1.0: the bits are accepted one at a time in order, DRIVER_OK on
\* top of ACKNOWLEDGE|DRIVER|FEATURES_OK calls activate (an Err is logged), 0
\* resets the device (reset returns Ok(())), FAILED is recorded.
mmio_write_status(status, tap_ok, ioevent_fail_at) ==
    LET changed == status \ net_status
        after == activate(NetDev, tap_ok, ioevent_fail_at)
    IN  /\ ~net_panicked
        /\ IF changed = {"DRIVER_OK"}
              /\ net_status = {"ACKNOWLEDGE", "DRIVER", "FEATURES_OK"}
           THEN /\ net_activate_calls < MaxActivateCalls
                /\ net_status' = status
                /\ net_activate_calls' = net_activate_calls + 1
                /\ net_queues' = after.queues
                /\ UNCHANGED net_features
                /\ net_handler' = after.handler
                /\ net_taps_open' = after.taps_open
                /\ net_ioevents' = after.ioevents
                /\ net_subscribers' = after.subscribers
                /\ net_panicked' = (after.ret = "panic")
           ELSE /\ net_status' =
                      IF \/ changed = {"ACKNOWLEDGE"} /\ net_status = {}
                         \/ changed = {"DRIVER"} /\ net_status = {"ACKNOWLEDGE"}
                         \/ changed = {"FEATURES_OK"}
                              /\ net_status = {"ACKNOWLEDGE", "DRIVER"}
                      THEN status
                      ELSE IF "FAILED" \in status
                      THEN net_status \cup {"FAILED"}
                      ELSE IF status = {} THEN {}
                      ELSE net_status
                /\ UNCHANGED <<net_queues, net_handler, net_taps_open,
                               net_ioevents, net_subscribers,
                               net_activate_calls, net_panicked, net_features>>

----------------------------------------------------------------------------
(* Host stdin to the guest's serial receiver (src/vmm/src/devices/stdin.rs *)
(* and the Serial it feeds).  The bytes of the host's stdin stream are     *)
(* named by their position in it: byte i is the number i.                  *)

\* let mut out = [0u8; 64]
STDIN_BUF_LEN == 64
\* The capacity of the Serial's receive FIFO.
FIFO_SIZE == 64

VARIABLES
    stdin_taken,    \* bytes input.read has taken from the host stream so far
    in_buffer,      \* the Serial's receive FIFO
    rbr_reads       \* the bytes the guest got from RBR, in read order

rx_vars == <<stdin_taken, in_buffer, rbr_reads>>

RxInit ==
    /\ stdin_taken = 0
    /\ in_buffer = <<>>
    /\ rbr_reads = <<>>

Min(a, b) == IF a <= b THEN a ELSE b

\* The bytes first .. last of the host stream.
StreamBytes(first, last) == [i \in 1 .. (last - first + 1) |-> first + i - 1]

\* Serial::enqueue_raw_bytes.  The build decides which of the two forms of
\* the call it gets: all_or_nothing: Err(FullFifo) unless the whole input
\* fits; otherwise Err(FullFifo) only when the FIFO is full, and as many
\* bytes as fit are taken.  The result is the FIFO afterwards.
enqueue_raw_bytes(fifo, input, all_or_nothing) ==
    LET capacity == FIFO_SIZE - Len(fifo)
    IN  IF all_or_nothing
        THEN IF Len(input) > capacity THEN fifo ELSE fifo \o input
        ELSE fifo \o SubSeq(input, 1, Min(capacity, Len(input)))

\* StdinHandler::process on EventSet::IN with STDIN_DATA: input.read takes
\* n > 0 bytes (at most the 64 of `out`), which are enqueued; an Err of
\* enqueue_raw_bytes is printed and the bytes are gone.
process(n, all_or_nothing) ==
    /\ n \in 1 .. Min(STDIN_BUF_LEN, MaxStdinBytes - stdin_taken)
    /\ stdin_taken' = stdin_taken + n
    /\ in_buffer' = enqueue_raw_bytes(in_buffer,
                                      StreamBytes(stdin_taken + 1, stdin_taken + n),
                                      all_or_nothing)
    /\ UNCHANGED rbr_reads

\* The guest reads RBR with data ready: the Serial pops the front of the
\* FIFO.
read_rbr ==
    /\ in_buffer # <<>>
    /\ rbr_reads' = Append(rbr_reads, Head(in_buffer))
    /\ in_buffer' = Tail(in_buffer)
    /\ UNCHANGED stdin_taken

----------------------------------------------------------------------------
(* The serial transmitter's writer (impl Write for MultiWriter,            *)
(* src/vmm/src/devices/serial.rs).  The bytes the guest writes to THR are  *)
(* named by their position: byte i is the number i.                        *)

VARIABLES
    mw_stdout,      \* MultiWriter.stdout
    mw_file,        \* MultiWriter.file is Some
    thr_written,    \* bytes the guest has written to THR so far
    tx_buf,         \* what is left of the buffer of the write_all in progress
    sink_stdout,    \* the bytes stdout has accepted
    sink_file       \* the bytes the file holds

tx_vars == <<mw_stdout, mw_file, thr_written, tx_buf, sink_stdout, sink_file>>

\* MultiWriter::new(file_path, use_stdout) with at least one sink.
MultiWriter_new(file_is_some, use_stdout) ==
    /\ mw_file = file_is_some
    /\ mw_stdout = use_stdout
    /\ thr_written = 0
    /\ tx_buf = <<>>
    /\ sink_stdout = <<>>
    /\ sink_file = <<>>

TxInit ==
    \E file_is_some \in BOOLEAN : \E use_stdout \in BOOLEAN :
        /\ file_is_some \/ use_stdout
        /\ MultiWriter_new(file_is_some, use_stdout)

TxIdle == MultiWriter_new(FALSE, TRUE)

\* MultiWriter::write(buf), stdout().write taking `accepted` bytes of buf:
\* what goes to each sink and the count returned.
MultiWriter_write(buf, stdout, file, accepted) ==
    [to_stdout |-> IF stdout THEN SubSeq(buf, 1, accepted) ELSE <<>>,
     to_file |-> IF file THEN buf ELSE <<>>,
     written |-> IF file THEN Len(buf) ELSE IF stdout THEN accepted ELSE 0]

\* The Serial hands the guest's next len bytes to the writer's write_all.
write_all_begin(len) ==
    /\ tx_buf = <<>>
    /\ thr_written + len <= MaxThrBytes
    /\ thr_written' = thr_written + len
    /\ tx_buf' = StreamBytes(thr_written + 1, thr_written + len)
    /\ UNCHANGED <<mw_stdout, mw_file, sink_stdout, sink_file>>

\* write_all, one turn of its loop: write(buf) returns Ok(n), n > 0, and the
\* loop goes on with buf[n..].
write_all_turn(accepted) ==
    LET w == MultiWriter_write(tx_buf, mw_stdout, mw_file, accepted)
    IN  /\ tx_buf # <<>>
        /\ accepted \in 1 .. Len(tx_buf)
        /\ sink_stdout' = sink_stdout \o w.to_stdout
        /\ sink_file' = sink_file \o w.to_file
        /\ tx_buf' = SubSeq(tx_buf, w.written + 1, Len(tx_buf))
        /\ UNCHANGED <<mw_stdout, mw_file, thr_written>>

----------------------------------------------------------------------------
(* IpManager (src/backend/src/ip_manager.rs).  Addresses are u32 at their  *)
(* real width; the state file holds the entries of the allocation map in   *)
(* the order the serializer met them.                                      *)

\* u32::from(Ipv4Addr::new(a, b, c, d))
Ipv4Addr_new(a, b, c, d) == U32(a * 256 + b, c * 256 + d)

\* Ipv4Addr::from(u32).to_string(): the four octets in decimal, dotted.
Ipv4Addr_to_string(x) ==
    FmtDec(x.hi \div 256) \o <<".">> \o FmtDec(x.hi % 256) \o <<".">>
        \o FmtDec(x.lo \div 256) \o <<".">> \o FmtDec(x.lo % 256)

\* The loop guard as `<`: the pool without its last address.
U32Leq_strict(a, b) == a.hi < b.hi \/ (a.hi = b.hi /\ a.lo < b.lo)

\* a <= b on u32
U32Leq(a, b) == a.hi < b.hi \/ (a.hi = b.hi /\ a.lo <= b.lo)

\* The VM IDs and the pools [start_ip, end_ip] the model draws from: the
\* pool of the unit tests, one across an octet, one across the 16-bit
\* halves, one ending at 255.255.255.255.
VmIds == {"vm-1", "vm-2", "vm-3", "vm-4"}
IpPools ==
    { [start_ip |-> Ipv4Addr_new(192, 168, 1, 10),
       end_ip |-> Ipv4Addr_new(192, 168, 1, 12)],
      [start_ip |-> Ipv4Addr_new(192, 168, 1, 255),
       end_ip |-> Ipv4Addr_new(192, 168, 2, 1)],
      [start_ip |-> Ipv4Addr_new(10, 0, 255, 255),
       end_ip |-> Ipv4Addr_new(10, 1, 0, 1)],
      [start_ip |-> Ipv4Addr_new(255, 255, 255, 254),
       end_ip |-> Ipv4Addr_new(255, 255, 255, 255)] }

VARIABLES
    ip_pool,            \* IpManager.start_ip, IpManager.end_ip
    ip_overflow_checks, \* the build panics on integer overflow (else wraps)
    ip_file,            \* the state file
    ip_poisoned,        \* IpManager.lock is poisoned (a holder panicked)
    ip_last             \* the last call: arguments, result, the map before,
                        \* whether it is the first call of its instance

ip_vars ==
    <<ip_pool, ip_overflow_checks, ip_file, ip_poisoned, ip_last>>

\* IpManagerState::default()
EmptyAllocations == [v \in {} |-> <<>>]

\* A zero-length state file (a fresh temporary file).
BlankFile == [blank |-> TRUE, entries |-> <<>>]

\* serde_json::to_string_pretty(state): the entries of the map, written in
\* the order `order` (a sequence of its keys) lists them.
to_string_pretty(allocations, order) ==
    [blank |-> FALSE,
     entries |-> [i \in DOMAIN order |-> <<order[i], allocations[order[i]]>>]]

\* The sequences that list every element of S once.
Orders(S) ==
    { q \in [1 .. Cardinality(S) -> S] : \A x \in S : \E i \in DOMAIN q : q[i] = x }

\* read_state: the default state for an empty file, else the map the
\* entries spell (a later entry for a key replaces an earlier one).
read_state(file) ==
    IF file.blank THEN EmptyAllocations
    ELSE LET keys == {file.entries[i][1] : i \in DOMAIN file.entries}
             last(v) == CHOOSE i \in DOMAIN file.entries :
                            /\ file.entries[i][1] = v
                            /\ \A j \in DOMAIN file.entries :
                                   file.entries[j][1] = v => j <= i
         IN  [v \in keys |-> file.entries[last(v)][2]]

\* The values of the allocation map.
Values(allocations) == {allocations[v] : v \in DOMAIN allocations}

\* state.allocations.insert(vm_id, ip)
Insert(allocations, vm_id, ip) ==
    [v \in DOMAIN allocations \cup {vm_id} |->
        IF v = vm_id THEN ip ELSE allocations[v]]

\* state.allocations.remove(vm_id)
Remove(allocations, vm_id) ==
    [v \in DOMAIN allocations \ {vm_id} |-> allocations[v]]

\* The loop of allocate_ip: the first address from current_ip_val up to
\* end_ip whose text is not among allocated_ips.  `current_ip_val += 1` at
\* u32::MAX panics in a build with overflow checks and wraps to 0 in one
\* without.
RECURSIVE select_ip(_, _, _, _)
select_ip(current_ip_val, end_ip, allocated_ips, overflow_checks) ==
    IF ~U32Leq(current_ip_val, end_ip) THEN [kind |-> "None", ip |-> <<>>]
    ELSE IF Ipv4Addr_to_string(current_ip_val) \notin allocated_ips
         THEN [kind |-> "Some", ip |-> Ipv4Addr_to_string(current_ip_val)]
    ELSE IF current_ip_val = U32_MAX
         THEN IF overflow_checks THEN [kind |-> "overflow", ip |-> <<>>]
              ELSE select_ip(U32(0, 0), end_ip, allocated_ips, overflow_checks)
    ELSE select_ip(WrappingAdd1(current_ip_val), end_ip, allocated_ips,
                   overflow_checks)

Ok(value) == [kind |-> "Ok", value |-> value]
PoolExhausted == [kind |-> "PoolExhausted", value |-> <<>>]
Panicked == [kind |-> "panic", value |-> <<>>]

\* allocate_ip without the early return for a VM ID that holds an address.
allocate_ip_on_no_lookup(state, vm_id, pool, overflow_checks) ==
    LET selected_ip == select_ip(pool.start_ip, pool.end_ip,
                                 Values(state), overflow_checks)
    IN  IF selected_ip.kind = "overflow"
        THEN [result |-> Panicked, state |-> state, written |-> FALSE]
        ELSE IF selected_ip.kind = "None"
        THEN [result |-> PoolExhausted, state |-> state, written |-> FALSE]
        ELSE [result |-> Ok(selected_ip.ip),
              state |-> Insert(state, vm_id, selected_ip.ip),
              written |-> TRUE]

\* allocate_ip on the state read: the result, the state afterwards and
\* whether it is written back.
allocate_ip_on(state, vm_id, pool, overflow_checks) ==
    IF vm_id \in DOMAIN state
    THEN [result |-> Ok(state[vm_id]), state |-> state, written |-> FALSE]
    ELSE LET selected_ip == select_ip(pool.start_ip, pool.end_ip,
                                      Values(state), overflow_checks)
         IN  IF selected_ip.kind = "overflow"
             THEN [result |-> Panicked, state |-> state, written |-> FALSE]
             ELSE IF selected_ip.kind = "None"
             THEN [result |-> PoolExhausted, state |-> state,
                   written |-> FALSE]
             ELSE [result |-> Ok(selected_ip.ip),
                   state |-> Insert(state, vm_id, selected_ip.ip),
                   written |-> TRUE]

\* release_ip that writes the default state back instead of the state
\* without vm_id.
release_ip_on_clears(state, vm_id) ==
    IF vm_id \in DOMAIN state
    THEN [result |-> Ok(TRUE), state |-> EmptyAllocations, written |-> TRUE]
    ELSE [result |-> Ok(FALSE), state |-> state, written |-> FALSE]

\* release_ip on the state read.
release_ip_on(state, vm_id) ==
    IF vm_id \in DOMAIN state
    THEN [result |-> Ok(TRUE), state |-> Remove(state, vm_id),
          written |-> TRUE]
    ELSE [result |-> Ok(FALSE), state |-> state, written |-> FALSE]

\* IpManager::new without the test for an existing file.
new_state_file_always_written(file_exists, file) ==
    to_string_pretty(EmptyAllocations, <<>>)
\* The state file after IpManager::new: written with the default state
\* only when it did not exist.
new_state_file(file_exists, file) ==
    IF file_exists THEN file ELSE to_string_pretty(EmptyAllocations, <<>>)

NoIpCall ==
    [op |-> "none", vm_id |-> "", result |-> Ok(<<>>),
     before |-> EmptyAllocations, first |-> FALSE]

\* The first IpManager::new, on a fresh temporary file or on a path where
\* no file is yet.
IpInit ==
    /\ ip_pool \in IpPools
    /\ ip_overflow_checks \in BOOLEAN
    /\ \E file_exists \in BOOLEAN :
           ip_file = new_state_file(file_exists, BlankFile)
    /\ ip_poisoned = FALSE
    /\ ip_last = [NoIpCall EXCEPT !.first = TRUE]

\* The part before any step, with the pool of the unit tests.
IpIdle ==
    /\ ip_pool = [start_ip |-> Ipv4Addr_new(192, 168, 1, 10),
                  end_ip |-> Ipv4Addr_new(192, 168, 1, 12)]
    /\ ip_overflow_checks = TRUE
    /\ ip_file = new_state_file(TRUE, BlankFile)
    /\ ip_poisoned = FALSE
    /\ ip_last = [NoIpCall EXCEPT !.first = TRUE]

\* A call that writes the state back writes its entries in some order; a
\* call that panics while it holds the lock leaves the lock poisoned, and
\* the instance takes no further call (each would panic at lock().unwrap()).
Call_on_file(op, vm_id, r) ==
    /\ IF r.written
       THEN \E order \in Orders(DOMAIN r.state) :
                ip_file' = to_string_pretty(r.state, order)
       ELSE ip_file' = ip_file
    /\ ip_poisoned' = (r.result.kind = "panic")
    /\ ip_last' = [op |-> op, vm_id |-> vm_id, result |-> r.result,
                   before |-> read_state(ip_file),
                   first |-> ip_last.op \in {"none", "new"}]
    /\ UNCHANGED <<ip_pool, ip_overflow_checks>>

allocate_ip(vm_id) ==
    /\ ~ip_poisoned
    /\ Call_on_file("allocate_ip", vm_id,
                    allocate_ip_on(read_state(ip_file), vm_id, ip_pool,
                                   ip_overflow_checks))

release_ip(vm_id) ==
    /\ ~ip_poisoned
    /\ Call_on_file("release_ip", vm_id,
                    release_ip_on(read_state(ip_file), vm_id))

\* A later IpManager::new on the same path, with the same pool.
IpManager_new ==
    /\ ip_file' = new_state_file(TRUE, ip_file)
    /\ ip_poisoned' = FALSE
    /\ ip_last' = [op |-> "new", vm_id |-> "", result |-> Ok(<<>>),
                   before |-> read_state(ip_file), first |-> FALSE]
    /\ UNCHANGED <<ip_pool, ip_overflow_checks>>

----------------------------------------------------------------------------
(* QemuRunner::run_initramfs (src/agent/src/qemu.rs): the scan of the      *)
(* guest's stdout, line by line.                                           *)

\* The literals of the scan.
PROGRAM_OUTPUT ==
    <<"-", "-", "-", " ", "P", "R", "O", "G", "R", "A", "M", " ",
      "O", "U", "T", "P", "U", "T", " ", "-", "-", "-">>
END_OUTPUT ==
    <<"-", "-", "-", " ", "E", "N", "D", " ", "O", "U", "T", "P",
      "U", "T", " ", "-", "-", "-">>
EXIT_CODE_PREFIX ==
    <<"E", "x", "i", "t", " ", "c", "o", "d", "e", ":">>
EXIT_CODE_TRIMMED ==
    <<"E", "x", "i", "t", " ", "c", "o", "d", "e", ":", " ">>

\* The lines the guest may print: program text, the two markers, a marker
\* inside a longer line, exit-code lines in several spellings.
GuestLines ==
    { <<"h", "i">>,
      PROGRAM_OUTPUT,
      END_OUTPUT,
      <<">", " ", "-", "-", "-", " ", "E", "N", "D", " ", "O", "U", "T",
  "P", "U", "T", " ", "-", "-", "-">>,
      <<"E", "x", "i", "t", " ", "c", "o", "d", "e", ":", " ", "0">>,
      <<"E", "x", "i", "t", " ", "c", "o", "d", "e", ":", " ", "3">>,
      <<"E", "x", "i", "t", " ", "c", "o", "d", "e", ":", " ", "-", "1">>,
      <<"E", "x", "i", "t", " ", "c", "o", "d", "e", ":", "5">>,
      <<"E", "x", "i", "t", " ", "c", "o", "d", "e", ":", " ", "x">> }

\* str::contains, str::starts_with
Contains(line, pat) ==
    \E i \in 0 .. Len(line) - Len(pat) : SubSeq(line, i + 1, i + Len(pat)) = pat

StartsWith(line, pat) ==
    Len(line) >= Len(pat) /\ SubSeq(line, 1, Len(pat)) = pat

\* str::trim_start_matches: the prefix removed as often as it repeats.
RECURSIVE trim_start_matches(_, _)
trim_start_matches(line, pat) ==
    IF StartsWith(line, pat)
    THEN trim_start_matches(SubSeq(line, Len(pat) + 1, Len(line)), pat)
    ELSE line

\* str::trim: white space removed at both ends.
WhiteSpace == {" ", "\t", "\r", "\n"}

RECURSIVE trim(_)
trim(str) ==
    IF str # <<>> /\ str[1] \in WhiteSpace THEN trim(Tail(str))
    ELSE IF str # <<>> /\ str[Len(str)] \in WhiteSpace
         THEN trim(SubSeq(str, 1, Len(str) - 1))
    ELSE str

\* str::parse::<i32>: an optional sign, then one or more decimal digits,
\* the value within i32.
Digits == {"0", "1", "2", "3", "4", "5", "6", "7", "8", "9"}

RECURSIVE StripZeros(_)
StripZeros(digits) ==
    IF Len(digits) > 1 /\ digits[1] = "0" THEN StripZeros(Tail(digits))
    ELSE digits

RECURSIVE DecValue(_)
DecValue(digits) ==
    IF digits = <<>> THEN 0
    ELSE DecValue(SubSeq(digits, 1, Len(digits) - 1)) * 10
             + (CHOOSE d \in 0 .. 9 : HexChars[d + 1] = digits[Len(digits)])

ParseErr == [ok |-> FALSE, value |-> 0]

parse_i32(str) ==
    LET negative == str # <<>> /\ str[1] = "-"
        signed == str # <<>> /\ str[1] \in {"+", "-"}
        digits == StripZeros(IF signed THEN Tail(str) ELSE str)
        head == DecValue(SubSeq(digits, 1, Len(digits) - 1))
        last == DecValue(SubSeq(digits, Len(digits), Len(digits)))
        fits == \/ Len(digits) < 10
                \/ /\ Len(digits) = 10
                   /\ \/ head < 214748364
                      \/ head = 214748364 /\ last <= (IF negative THEN 8 ELSE 7)
    IN  IF digits = <<>> \/ (\E i \in DOMAIN digits : digits[i] \notin Digits)
           \/ ~fits
        THEN ParseErr
        ELSE [ok |-> TRUE,
              value |-> IF negative THEN (0 - head) * 10 - last
                        ELSE head * 10 + last]

VARIABLES
    guest_lines,        \* the lines read from QEMU's stdout so far
    captured_output,    \* run_initramfs: captured_output
    is_capturing,       \* run_initramfs: is_capturing
    exit_code,          \* run_initramfs: exit_code
    execution_result    \* what run_initramfs returned, once it has

qemu_vars ==
    <<guest_lines, captured_output, is_capturing, exit_code, execution_result>>

\* Lines a run may print before QEMU's stdout ends.
MaxGuestLines == 4

NotReturned == [kind |-> "running"]

\* The locals before the first line is read.
QemuInit ==
    /\ guest_lines = <<>>
    /\ captured_output = <<>>
    /\ is_capturing = FALSE
    /\ exit_code = 127
    /\ execution_result = NotReturned

\* The body of the loop for one line.
scan_line(line, capturing, code, output) ==
    IF Contains(line, PROGRAM_OUTPUT)
    THEN [is_capturing |-> TRUE, exit_code |-> code, captured_output |-> output]
    ELSE IF Contains(line, END_OUTPUT)
    THEN [is_capturing |-> FALSE, exit_code |-> code, captured_output |-> output]
    ELSE IF StartsWith(line, EXIT_CODE_PREFIX)
    THEN LET parsed == parse_i32(trim(trim_start_matches(line, EXIT_CODE_TRIMMED)))
         IN  [is_capturing |-> capturing,
              exit_code |-> IF parsed.ok THEN parsed.value ELSE code,
              captured_output |-> output]
    ELSE [is_capturing |-> capturing, exit_code |-> code,
          captured_output |-> IF capturing THEN output \o line \o <<"\n">>
                              ELSE output]

\* reader.next_line() returns Some(line).
next_line(line) ==
    /\ execution_result = NotReturned
    /\ Len(guest_lines) < MaxGuestLines
    /\ guest_lines' = Append(guest_lines, line)
    /\ LET after == scan_line(line, is_capturing, exit_code, captured_output)
       IN  /\ is_capturing' = after.is_capturing
           /\ exit_code' = after.exit_code
           /\ captured_output' = after.captured_output
    /\ UNCHANGED execution_result

\* reader.next_line() returns None; QEMU exits within the 30 s or is
\* killed, and run_initramfs returns.
run_initramfs_return(timed_out) ==
    /\ execution_result = NotReturned
    /\ execution_result' =
           IF timed_out THEN [kind |-> "Err"]
           ELSE [kind |-> "Ok", exit_code |-> exit_code,
                 stdout |-> captured_output, stderr |-> <<>>]
    /\ UNCHANGED <<guest_lines, captured_output, is_capturing, exit_code>>

----------------------------------------------------------------------------
(* The agent's runtimes and init script (src/agent/src/runtimes,           *)
(* src/agent/src/builder/init.rs), and the guest's shell running the       *)
(* script as PID 1 with its output on the serial console.                  *)

MOUNT_PROC ==
    <<"m", "o", "u", "n", "t", " ", "-", "t", " ", "p", "r", "o", "c",
      " ", "p", "r", "o", "c", " ", "/", "p", "r", "o", "c">>
MOUNT_SYSFS ==
    <<"m", "o", "u", "n", "t", " ", "-", "t", " ", "s", "y", "s", "f",
      "s", " ", "s", "y", "s", "f", "s", " ", "/", "s", "y", "s">>
MOUNT_DEVTMPFS ==
    <<"m", "o", "u", "n", "t", " ", "-", "t", " ", "d", "e", "v", "t",
      "m", "p", "f", "s", " ", "d", "e", "v", " ", "/", "d", "e", "v">>
EXPORT_PATH ==
    <<"e", "x", "p", "o", "r", "t", " ", "P", "A", "T", "H", "=", "/",
      "u", "s", "r", "/", "l", "o", "c", "a", "l", "/", "s", "b", "i",
      "n", ":", "/", "u", "s", "r", "/", "l", "o", "c", "a", "l", "/",
      "b", "i", "n", ":", "/", "u", "s", "r", "/", "s", "b", "i", "n",
      ":", "/", "u", "s", "r", "/", "b", "i", "n", ":", "/", "s", "b",
      "i", "n", ":", "/", "b", "i", "n">>
BANNER ==
    <<"=", "=", "=", " ", "C", "l", "o", "u", "d", "e", " ", "A", "g",
      "e", "n", "t", " ", "I", "n", "i", "t", " ", "=", "=", "=">>
COMPILING ==
    <<"C", "o", "m", "p", "i", "l", "i", "n", "g", ".", ".", ".">>
COMPILATION_FAILED ==
    <<"C", "o", "m", "p", "i", "l", "a", "t", "i", "o", "n", " ", "f",
      "a", "i", "l", "e", "d">>
COMPILATION_SUCCESSFUL ==
    <<"C", "o", "m", "p", "i", "l", "a", "t", "i", "o", "n", " ", "s",
      "u", "c", "c", "e", "s", "s", "f", "u", "l">>
SYNC ==
    <<"s", "y", "n", "c">>
POWEROFF ==
    <<"p", "o", "w", "e", "r", "o", "f", "f", " ", "-", "f">>
PYTHON_RUN ==
    <<"p", "y", "t", "h", "o", "n", "3">>
NODE_RUN ==
    <<"n", "o", "d", "e">>
RUST_RUN ==
    <<"/", "l", "a", "m", "b", "d", "a", "/", "b", "i", "n">>
RUST_COMPILE ==
    <<"r", "u", "s", "t", "c", " ", "-", "o", " ", "/", "l", "a", "m",
      "b", "d", "a", "/", "b", "i", "n", " ", "/", "l", "a", "m", "b",
      "d", "a", "/", "c", "o", "d", "e", ".", "r", "s">>
RUST_EXECUTE ==
    <<"/", "l", "a", "m", "b", "d", "a", "/", "b", "i", "n">>
LAMBDA_CODE ==
    <<"/", "l", "a", "m", "b", "d", "a", "/", "c", "o", "d", "e", ".">>
KERNEL_PANIC ==
    <<"K", "e", "r", "n", "e", "l", " ", "p", "a", "n", "i", "c", " ",
      "-", " ", "n", "o", "t", " ", "s", "y", "n", "c", "i", "n", "g",
      ":", " ", "A", "t", "t", "e", "m", "p", "t", "e", "d", " ", "t",
      "o", " ", "k", "i", "l", "l", " ", "i", "n", "i", "t", "!">>

NoneStr == [some |-> FALSE, value |-> <<>>]
SomeStr(str) == [some |-> TRUE, value |-> str]

PythonRuntime ==
    [run_command |-> PYTHON_RUN, source_extension |-> <<"p", "y">>,
     compile_command |-> NoneStr, execute_path |-> NoneStr]
NodeRuntime ==
    [run_command |-> NODE_RUN, source_extension |-> <<"j", "s">>,
     compile_command |-> NoneStr, execute_path |-> NoneStr]
RustRuntime ==
    [run_command |-> RUST_RUN, source_extension |-> <<"r", "s">>,
     compile_command |-> SomeStr(RUST_COMPILE),
     execute_path |-> SomeStr(RUST_EXECUTE)]

\* detect_runtime: the runtimes there are.
Runtimes == {PythonRuntime, NodeRuntime, RustRuntime}

\* build_image: format!("/lambda/code.{}", runtime.source_extension())
code_path_of(runtime) == LAMBDA_CODE \o runtime.source_extension

\* One line of the script, by what sh does with it:
\*   run      <text>
\*   echo     echo '<text>'
\*   or_fail  <text> || { echo 'Compilation failed'; sync; exit 1; }
\*   assign   EXIT_CODE=$?
\*   echo_exit_code   echo "Exit code: $EXIT_CODE"
\*   or_exit  <text> 2>/dev/null || exit $EXIT_CODE
Sh(kind, text) == [kind |-> kind, text |-> text]

\* generate_script with EXIT_CODE=$? after the echo of the end marker.
generate_script_status_taken_late(runtime, code_path) ==
    <<Sh("run", MOUNT_PROC), Sh("run", MOUNT_SYSFS), Sh("run", MOUNT_DEVTMPFS),
      Sh("run", EXPORT_PATH), Sh("echo", BANNER)>>
    \o (IF runtime.compile_command.some
        THEN <<Sh("echo", COMPILING),
               Sh("or_fail", runtime.compile_command.value),
               Sh("echo", COMPILATION_SUCCESSFUL)>>
        ELSE <<>>)
    \o <<Sh("echo", PROGRAM_OUTPUT),
         Sh("run", IF runtime.execute_path.some THEN runtime.execute_path.value
                   ELSE runtime.run_command \o <<" ">> \o code_path),
         Sh("echo", END_OUTPUT),
         Sh("assign", <<>>),
         Sh("echo_exit_code", <<>>),
         Sh("run", SYNC),
         Sh("or_exit", POWEROFF)>>

\* InitScriptGenerator::generate_script: the lines pushed, in order.
generate_script(runtime, code_path) ==
    <<Sh("run", MOUNT_PROC), Sh("run", MOUNT_SYSFS), Sh("run", MOUNT_DEVTMPFS),
      Sh("run", EXPORT_PATH), Sh("echo", BANNER)>>
    \o (IF runtime.compile_command.some
        THEN <<Sh("echo", COMPILING),
               Sh("or_fail", runtime.compile_command.value),
               Sh("echo", COMPILATION_SUCCESSFUL)>>
        ELSE <<>>)
    \o <<Sh("echo", PROGRAM_OUTPUT),
         Sh("run", IF runtime.execute_path.some THEN runtime.execute_path.value
                   ELSE runtime.run_command \o <<" ">> \o code_path),
         Sh("assign", <<>>),
         Sh("echo", END_OUTPUT),
         Sh("echo_exit_code", <<>>),
         Sh("run", SYNC),
         Sh("or_exit", POWEROFF)>>

\* Commands of the script that print nothing.
Silent == {MOUNT_PROC, MOUNT_SYSFS, MOUNT_DEVTMPFS, EXPORT_PATH, SYNC}

\* What a compiler or a payload may print, and the statuses it may end with.
CommandOutputs == {<<>>, <<<<"h", "i">>>>}
CommandStatuses == {0, 1, 3}

VARIABLES
    init_runtime,       \* the runtime the image was built for
    init_pc,            \* the line of the script sh is at
    init_status,        \* $?
    init_EXIT_CODE,     \* $EXIT_CODE
    init_performed,     \* the lines sh has performed, in order
    init_payload,       \* the status the payload ended with, -1 before
    init_compile_failed,
    init_over,          \* "running", "poweroff" or "exit" (PID 1 has exited)
    serial_lines        \* the lines on the serial console so far

init_vars ==
    <<init_runtime, init_pc, init_status, init_EXIT_CODE, init_performed,
      init_payload, init_compile_failed, init_over, serial_lines>>

init_script == generate_script(init_runtime, code_path_of(init_runtime))

\* The guest starts /init of an image built for some runtime.
GuestInit ==
    /\ init_runtime \in Runtimes
    /\ init_pc = 1
    /\ init_status = 0
    /\ init_EXIT_CODE = 0
    /\ init_performed = <<>>
    /\ init_payload = -1
    /\ init_compile_failed = FALSE
    /\ init_over = "running"
    /\ serial_lines = <<>>

\* The part before any step, with the Python runtime.
GuestIdle ==
    /\ init_runtime = PythonRuntime
    /\ init_pc = 1
    /\ init_status = 0
    /\ init_EXIT_CODE = 0
    /\ init_performed = <<>>
    /\ init_payload = -1
    /\ init_compile_failed = FALSE
    /\ init_over = "running"
    /\ serial_lines = <<>>

AtLine(kind) ==
    /\ init_over = "running"
    /\ init_pc <= Len(init_script)
    /\ init_script[init_pc].kind = kind

Performed == init_performed' = Append(init_performed, init_script[init_pc])

\* A command runs to its end: what it printed is on the console, its
\* status in $?.  The command after the start marker is the payload.
sh_run(status, output) ==
    /\ AtLine("run")
    /\ init_script[init_pc].text \in Silent => output = <<>>
    /\ Performed
    /\ init_pc' = init_pc + 1
    /\ init_status' = status
    /\ serial_lines' = serial_lines \o output
    /\ init_payload' =
           IF init_pc > 1 /\ init_script[init_pc - 1] = Sh("echo", PROGRAM_OUTPUT)
           THEN status ELSE init_payload
    /\ UNCHANGED <<init_runtime, init_EXIT_CODE, init_compile_failed, init_over>>

\* echo '<text>'
sh_echo ==
    /\ AtLine("echo")
    /\ Performed
    /\ init_pc' = init_pc + 1
    /\ init_status' = 0
    /\ serial_lines' = Append(serial_lines, init_script[init_pc].text)
    /\ UNCHANGED <<init_runtime, init_EXIT_CODE, init_payload,
                   init_compile_failed, init_over>>

\* <compile> || { echo 'Compilation failed'; sync; exit 1; }: PID 1 exits
\* with 1 when the compiler fails, and the kernel panics.
sh_or_fail(status, output) ==
    /\ AtLine("or_fail")
    /\ Performed
    /\ init_status' = status
    /\ IF status = 0
       THEN /\ init_pc' = init_pc + 1
            /\ serial_lines' = serial_lines \o output
            /\ UNCHANGED <<init_compile_failed, init_over>>
       ELSE /\ init_pc' = init_pc
            /\ serial_lines' =
                   serial_lines \o output \o <<COMPILATION_FAILED, KERNEL_PANIC>>
            /\ init_compile_failed' = TRUE
            /\ init_over' = "exit"
    /\ UNCHANGED <<init_runtime, init_EXIT_CODE, init_payload>>

\* EXIT_CODE=$?
sh_assign ==
    /\ AtLine("assign")
    /\ Performed
    /\ init_pc' = init_pc + 1
    /\ init_EXIT_CODE' = init_status
    /\ init_status' = 0
    /\ UNCHANGED <<init_runtime, init_payload, init_compile_failed, init_over,
                   serial_lines>>

\* echo "Exit code: $EXIT_CODE"
sh_echo_exit_code ==
    /\ AtLine("echo_exit_code")
    /\ Performed
    /\ init_pc' = init_pc + 1
    /\ init_status' = 0
    /\ serial_lines' =
           Append(serial_lines, EXIT_CODE_TRIMMED \o FmtDec(init_EXIT_CODE))
    /\ UNCHANGED <<init_runtime, init_EXIT_CODE, init_payload,
                   init_compile_failed, init_over>>

\* poweroff -f 2>/dev/null || exit $EXIT_CODE
sh_or_exit(powered_off) ==
    /\ AtLine("or_exit")
    /\ Performed
    /\ init_pc' = init_pc
    /\ init_status' = init_status
    /\ IF powered_off
       THEN init_over' = "poweroff" /\ serial_lines' = serial_lines
       ELSE /\ init_over' = "exit"
            /\ serial_lines' = Append(serial_lines, KERNEL_PANIC)
    /\ UNCHANGED <<init_runtime, init_EXIT_CODE, init_payload,
                   init_compile_failed>>

\* run_initramfs over all the lines of a run: the locals after the loop.
RECURSIVE scan_lines(_)
scan_lines(lines) ==
    IF lines = <<>>
    THEN [is_capturing |-> FALSE, exit_code |-> 127, captured_output |-> <<>>]
    ELSE LET before == scan_lines(SubSeq(lines, 1, Len(lines) - 1))
         IN  scan_line(lines[Len(lines)], before.is_capturing,
                       before.exit_code, before.captured_output)

----------------------------------------------------------------------------
(* VMM::configure_vcpus step by step (src/vmm/src/lib.rs), on a VM whose   *)
(* hypervisor creates each vCPU id once.                                   *)

\* configure calls on one VMM.
MaxConfigureCalls == 2

\* kernel_load.kernel_load of the loader's result, in units of AddrUnit.
KernelEntries == {2^20 \div AddrUnit, 2^24 \div AddrUnit}

\* The body of the loop for one index with the push before the LAPIC.
VcpuSteps_pushed_early ==
    <<"Vcpu::new", "configure_cpuid", "configure_msrs", "configure_regs",
      "configure_sregs", "configure_fpu", "push", "configure_lapic">>

\* The body of the loop for one index, in program order.
VcpuSteps ==
    <<"Vcpu::new", "configure_cpuid", "configure_msrs", "configure_regs",
      "configure_sregs", "configure_fpu", "configure_lapic", "push">>

VARIABLES
    cv_vcpus,       \* VMM.vcpus
    cv_created,     \* the vCPU ids the VM has created
    cv_pc,          \* where configure_vcpus is: "idle", "mptable", "cpuid", "loop"
    cv_args,        \* num_vcpus and kernel_load of the call in progress
    cv_index,       \* the loop's index
    cv_step,        \* the next step of the loop body
    cv_vcpu,        \* the vCPU the loop body has in hand, if any
    cv_log,         \* the steps of the last call that succeeded, in order
    cv_ret,         \* the result of the last call
    cv_calls        \* calls made

cv_vars ==
    <<cv_vcpus, cv_created, cv_pc, cv_args, cv_index, cv_step, cv_vcpu,
      cv_log, cv_ret, cv_calls>>

NoVcpu == [index |-> -1, applied |-> <<>>, rip |-> -1]

\* The VMM after new: no vCPU yet.
CvInit ==
    /\ cv_vcpus = <<>>
    /\ cv_created = {}
    /\ cv_pc = "idle"
    /\ cv_args = [num_vcpus |-> 0, kernel_load |-> 0]
    /\ cv_index = 0
    /\ cv_step = 1
    /\ cv_vcpu = NoVcpu
    /\ cv_log = <<>>
    /\ cv_ret = "none"
    /\ cv_calls = 0

\* configure has loaded the kernel and calls configure_vcpus.
configure_vcpus_begin(num_vcpus, kernel_load) ==
    /\ cv_pc = "idle"
    /\ cv_calls < MaxConfigureCalls
    /\ cv_calls' = cv_calls + 1
    /\ cv_pc' = "mptable"
    /\ cv_args' = [num_vcpus |-> num_vcpus, kernel_load |-> kernel_load]
    /\ cv_index' = 0
    /\ cv_step' = 1
    /\ cv_vcpu' = NoVcpu
    /\ cv_log' = <<>>
    /\ cv_ret' = "running"
    /\ UNCHANGED <<cv_vcpus, cv_created>>

\* A step fails: `?` returns the error; what the loop body had in hand is
\* dropped.
Failed(error) ==
    /\ cv_pc' = "idle"
    /\ cv_ret' = error
    /\ cv_vcpu' = NoVcpu
    /\ UNCHANGED <<cv_vcpus, cv_args, cv_index, cv_step, cv_log, cv_calls>>

\* mptable::setup_mptable(&self.guest_memory, num_vcpus)
setup_mptable(ok) ==
    /\ cv_pc = "mptable"
    /\ IF ok
       THEN /\ cv_pc' = "cpuid"
            /\ cv_log' = Append(cv_log, <<"setup_mptable", -1>>)
            /\ UNCHANGED <<cv_vcpus, cv_args, cv_index, cv_step, cv_vcpu,
                           cv_ret, cv_calls>>
       ELSE Failed("Vcpu(Mptable)")
    /\ UNCHANGED cv_created

\* self.kvm.get_supported_cpuid(KVM_MAX_CPUID_ENTRIES)
get_supported_cpuid(ok) ==
    /\ cv_pc = "cpuid"
    /\ IF ok
       THEN /\ cv_pc' = "loop"
            /\ cv_log' = Append(cv_log, <<"get_supported_cpuid", -1>>)
            /\ UNCHANGED <<cv_vcpus, cv_args, cv_index, cv_step, cv_vcpu,
                           cv_ret, cv_calls>>
       ELSE Failed("KvmIoctl")
    /\ UNCHANGED cv_created

\* `for index in 0..num_vcpus` is over: Ok(()).
configure_vcpus_return ==
    /\ cv_pc = "loop"
    /\ cv_index = cv_args.num_vcpus
    /\ cv_pc' = "idle"
    /\ cv_ret' = "Ok"
    /\ UNCHANGED <<cv_vcpus, cv_created, cv_args, cv_index, cv_step, cv_vcpu,
                   cv_log, cv_calls>>

\* Vcpu::new(&self.vm_fd, index, ..): a vCPU FD for the id, which the VM
\* gives once.
Vcpu_new(ok) ==
    /\ cv_pc = "loop" /\ cv_index < cv_args.num_vcpus
    /\ VcpuSteps[cv_step] = "Vcpu::new"
    /\ IF ok /\ cv_index \notin cv_created
       THEN /\ cv_created' = cv_created \cup {cv_index}
            /\ cv_vcpu' = [index |-> cv_index, applied |-> <<>>, rip |-> -1]
            /\ cv_step' = cv_step + 1
            /\ cv_log' = Append(cv_log, <<"Vcpu::new", cv_index>>)
            /\ UNCHANGED <<cv_vcpus, cv_pc, cv_args, cv_index, cv_ret, cv_calls>>
       ELSE Failed("Vcpu") /\ UNCHANGED cv_created

\* vcpu.configure_cpuid / _msrs / _regs(kernel_load.kernel_load) / _sregs /
\* _fpu / _lapic: the step is applied to the vCPU in hand; configure_regs
\* sets RIP to its argument.
vcpu_configure(ok) ==
    /\ cv_pc = "loop" /\ cv_index < cv_args.num_vcpus
    /\ VcpuSteps[cv_step] \notin {"Vcpu::new", "push"}
    /\ IF ok
       THEN /\ cv_vcpu' =
                   [cv_vcpu EXCEPT
                      !.applied = Append(@, VcpuSteps[cv_step]),
                      !.rip = IF VcpuSteps[cv_step] = "configure_regs"
                              THEN cv_args.kernel_load ELSE @]
            /\ cv_log' = Append(cv_log, <<VcpuSteps[cv_step], cv_index>>)
            /\ IF cv_step = Len(VcpuSteps)
               THEN cv_step' = 1 /\ cv_index' = cv_index + 1
               ELSE cv_step' = cv_step + 1 /\ cv_index' = cv_index
            /\ UNCHANGED <<cv_vcpus, cv_pc, cv_args, cv_ret, cv_calls>>
       ELSE Failed("Vcpu")
    /\ UNCHANGED cv_created

\* self.vcpus.push(vcpu)
vcpus_push ==
    /\ cv_pc = "loop" /\ cv_index < cv_args.num_vcpus
    /\ VcpuSteps[cv_step] = "push"
    /\ cv_vcpus' = Append(cv_vcpus, cv_vcpu)
    /\ cv_log' = Append(cv_log, <<"push", cv_index>>)
    /\ IF cv_step = Len(VcpuSteps)
       THEN cv_step' = 1 /\ cv_index' = cv_index + 1
       ELSE cv_step' = cv_step + 1 /\ cv_index' = cv_index
    /\ UNCHANGED <<cv_created, cv_pc, cv_args, cv_vcpu, cv_ret, cv_calls>>

----------------------------------------------------------------------------
(* VMM::new step by step (src/vmm/src/lib.rs): what the hypervisor has     *)
(* been asked for when each step runs.                                     *)

\* The steps of new with configure_io ahead of configure_memory.
NewSteps_io_first ==
    <<"Kvm::new", "create_vm", "EventManager::new", "AddressAllocator::new",
      "create_irq_chip", "eventfd", "register_irqfd",
      "from_ranges", "set_user_memory_region", "LumperSerial::new">>

\* The fallible steps of new, configure_memory and configure_io, in program
\* order.
NewSteps ==
    <<"Kvm::new", "create_vm", "EventManager::new", "AddressAllocator::new",
      "from_ranges", "set_user_memory_region", "LumperSerial::new",
      "create_irq_chip", "eventfd", "register_irqfd">>

\* The error each step's map_err gives.
NewError(step) ==
    CASE step \in {"Kvm::new", "create_vm", "set_user_memory_region",
                   "create_irq_chip", "register_irqfd"} -> "KvmIoctl"
      [] step = "EventManager::new" -> "EpollError"
      [] step = "AddressAllocator::new" -> "AddressAllocation"
      [] step = "from_ranges" -> "Memory"
      [] step = "LumperSerial::new" -> "SerialCreation"
      [] step = "eventfd" -> "IrqRegister"

SERIAL_IRQ == 4

VARIABLES
    nw_memory_size, \* the memory_size argument
    nw_step,        \* the next step of new
    nw_memslots,    \* the regions the VM has registered
    nw_irqchip,     \* the VM has its in-kernel irqchip
    nw_irqfds,      \* the eventfds bound to guest IRQs
    nw_vcpus,       \* the vCPU ids the VM has created
    nw_ret,         \* what new returned: "none" while it runs
    nw_vmm,         \* a VMM value exists
    nw_log          \* the hypervisor requests made, in order

nw_vars ==
    <<nw_memory_size, nw_step, nw_memslots, nw_irqchip, nw_irqfds, nw_vcpus,
      nw_ret, nw_vmm, nw_log>>

\* new is entered with the memory size asked for.
NwBegin(memory_size) ==
    /\ nw_memory_size = memory_size
    /\ nw_step = 1
    /\ nw_memslots = {}
    /\ nw_irqchip = FALSE
    /\ nw_irqfds = {}
    /\ nw_vcpus = {}
    /\ nw_ret = "none"
    /\ nw_vmm = FALSE
    /\ nw_log = <<>>

NwIdle == NwBegin(GiB)

\* The kvm_userspace_memory_region configure_memory builds for the one
\* region of from_ranges(&[(GuestAddress(0), memory_size)]).
kvm_memory_region(memory_size) ==
    [slot |-> 0, guest_phys_addr |-> 0, memory_size |-> memory_size,
     flags |-> 0]

\* One step of new.  A step that fails makes `?` return its error: the
\* values built so far are dropped and the VM with them.
new_step(ok) ==
    /\ nw_ret = "none"
    /\ nw_step <= Len(NewSteps)
    /\ IF ok
       THEN /\ nw_step' = nw_step + 1
            /\ nw_memslots' =
                   IF NewSteps[nw_step] = "set_user_memory_region"
                   THEN nw_memslots \cup {kvm_memory_region(nw_memory_size)}
                   ELSE nw_memslots
            /\ nw_irqchip' =
                   (nw_irqchip \/ NewSteps[nw_step] = "create_irq_chip")
            /\ nw_irqfds' =
                   IF NewSteps[nw_step] = "register_irqfd"
                   THEN nw_irqfds \cup {[fd |-> "serial", gsi |-> SERIAL_IRQ]}
                   ELSE nw_irqfds
            /\ nw_log' =
                   IF NewSteps[nw_step] \in {"set_user_memory_region",
                                             "create_irq_chip",
                                             "register_irqfd"}
                   THEN Append(nw_log, NewSteps[nw_step])
                   ELSE nw_log
            /\ UNCHANGED nw_ret
       ELSE /\ nw_ret' = NewError(NewSteps[nw_step])
            /\ nw_memslots' = {}
            /\ nw_irqchip' = FALSE
            /\ nw_irqfds' = {}
            /\ UNCHANGED <<nw_step, nw_log>>
    /\ UNCHANGED <<nw_memory_size, nw_vcpus, nw_vmm>>

\* Ok(vmm)
new_return ==
    /\ nw_ret = "none"
    /\ nw_step = Len(NewSteps) + 1
    /\ nw_ret' = "Ok"
    /\ nw_vmm' = TRUE
    /\ UNCHANGED <<nw_memory_size, nw_step, nw_memslots, nw_irqchip,
                   nw_irqfds, nw_vcpus, nw_log>>

\* configure on the VMM new returned creates the next vCPU.
configure_after_new ==
    /\ nw_vmm
    /\ Cardinality(nw_vcpus) < MaxVcpus
    /\ nw_vcpus' = nw_vcpus \cup {Cardinality(nw_vcpus)}
    /\ nw_log' = Append(nw_log, "create_vcpu")
    /\ UNCHANGED <<nw_memory_size, nw_step, nw_memslots, nw_irqchip,
                   nw_irqfds, nw_ret, nw_vmm>>

----------------------------------------------------------------------------
(* The StdinHandler as a subscriber of the event manager                   *)
(* (src/vmm/src/devices/stdin.rs): which events reach it and when it is    *)
(* removed.  The bytes themselves are the RX group's business.             *)

\* Bytes the host writes to stdin in one run.
MaxStdinWritten == 3
\* Reads of stdin that fail in one run.
MaxReadErrors == 2

\* What the VMM's input is: a pipe, or a descriptor that stays plainly
\* readable at end of input (a terminal, a socket whose peer shut down).
InputKinds == {"pipe", "socket"}

VARIABLES
    ev_kind,        \* the kind of descriptor behind input
    ev_written,     \* bytes the host has written
    ev_pending,     \* bytes readable now
    ev_closed,      \* the host closed its end: end of input once drained
    ev_registered,  \* the descriptor is in the event manager's epoll set
    ev_errors,      \* reads that failed so far
    ev_last,        \* the branch the last call of process took
    ev_after_eof    \* process was called after input.read had returned 0

ev_vars ==
    <<ev_kind, ev_written, ev_pending, ev_closed, ev_registered, ev_errors,
      ev_last, ev_after_eof>>

\* StdinHandler::init has run (add_subscriber in VMM::new): the descriptor is
\* registered for EventSet::IN with data STDIN_DATA.
StdinHandler_init(kind) ==
    /\ ev_kind = kind
    /\ ev_written = 0
    /\ ev_pending = 0
    /\ ev_closed = FALSE
    /\ ev_registered = TRUE
    /\ ev_errors = 0
    /\ ev_last = "none"
    /\ ev_after_eof = FALSE

EvIdle == StdinHandler_init("socket")

\* The event set epoll reports for the descriptor: EPOLLIN while bytes are
\* readable; at a closed write end a pipe reports EPOLLHUP (asked for or
\* not) and the other kind EPOLLIN.
ReadySet(kind, pending, closed) ==
    (IF pending > 0 \/ (closed /\ kind = "socket") THEN {"IN"} ELSE {})
    \cup (IF closed /\ kind = "pipe" THEN {"HUP"} ELSE {})

\* The host writes n more bytes.
host_write(n) ==
    /\ ~ev_closed
    /\ ev_written + n <= MaxStdinWritten
    /\ ev_written' = ev_written + n
    /\ ev_pending' = ev_pending + n
    /\ UNCHANGED <<ev_kind, ev_closed, ev_registered, ev_errors, ev_last,
                   ev_after_eof>>

\* The host closes its end.
host_close ==
    /\ ~ev_closed
    /\ ev_closed' = TRUE
    /\ UNCHANGED <<ev_kind, ev_written, ev_pending, ev_registered, ev_errors,
                   ev_last, ev_after_eof>>

\* StdinHandler::process with Err(e) of input.read handled as end of input.
StdinHandler_process_error_is_eof(event_set, read_fails, enqueue_ok, n) ==
    /\ ev_after_eof' = (ev_after_eof \/ ev_last = "eof")
    /\ IF event_set # {"IN"}
       THEN /\ ev_last' = "ignored"
            /\ UNCHANGED <<ev_pending, ev_registered, ev_errors>>
       ELSE IF read_fails
       THEN /\ ev_errors' = ev_errors + 1
            /\ ev_last' = "read_error"
            /\ ev_registered' = FALSE
            /\ UNCHANGED ev_pending
       ELSE IF ev_pending > 0
       THEN /\ ev_pending' = ev_pending - n
            /\ ev_last' = IF enqueue_ok THEN "data" ELSE "enqueue_error"
            /\ UNCHANGED <<ev_registered, ev_errors>>
       ELSE /\ ev_registered' = FALSE
            /\ ev_last' = "eof"
            /\ UNCHANGED <<ev_pending, ev_errors>>
    /\ UNCHANGED <<ev_kind, ev_written, ev_closed>>

\* StdinHandler::process(events, ops), events carrying STDIN_DATA: nothing
\* unless the event set is exactly IN; then input.read: Err(e) is printed;
\* Ok(n), n > 0: the n bytes go to enqueue_raw_bytes, whose Err is printed;
\* Ok(0): ops.remove takes the descriptor out of the epoll set.
StdinHandler_process(event_set, read_fails, enqueue_ok, n) ==
    /\ ev_after_eof' = (ev_after_eof \/ ev_last = "eof")
    /\ IF event_set # {"IN"}
       THEN /\ ev_last' = "ignored"
            /\ UNCHANGED <<ev_pending, ev_registered, ev_errors>>
       ELSE IF read_fails
       THEN /\ ev_errors' = ev_errors + 1
            /\ ev_last' = "read_error"
            /\ UNCHANGED <<ev_pending, ev_registered>>
       ELSE IF ev_pending > 0
       THEN /\ ev_pending' = ev_pending - n
            /\ ev_last' = IF enqueue_ok THEN "data" ELSE "enqueue_error"
            /\ UNCHANGED <<ev_registered, ev_errors>>
       ELSE /\ ev_registered' = FALSE
            /\ ev_last' = "eof"
            /\ UNCHANGED <<ev_pending, ev_errors>>
    /\ UNCHANGED <<ev_kind, ev_written, ev_closed>>

\* One turn of event_manager.run_with_timeout in which epoll reports the
\* descriptor: the subscriber's process is called with the event set.
run_with_timeout(read_fails, enqueue_ok, n) ==
    /\ ev_registered
    /\ ReadySet(ev_kind, ev_pending, ev_closed) # {}
    /\ read_fails => ev_errors < MaxReadErrors
    /\ n \in 1 .. Min(STDIN_BUF_LEN, IF ev_pending > 0 THEN ev_pending ELSE 1)
    /\ StdinHandler_process(ReadySet(ev_kind, ev_pending, ev_closed),
                            read_fails, enqueue_ok, n)

----------------------------------------------------------------------------
(* Activation of the virtio-net device on a vCPU thread, step by step      *)
(* (src/vmm/src/devices/virtio/net/device.rs, activate and what it calls), *)
(* beside the thread that owns the VMM inside run (src/vmm/src/lib.rs):    *)
(* which mutexes each thread holds, and who serves the blocking call.      *)

\* The offset of the QueueNotify register (0x050), in address units.
VIRTIO_MMIO_QUEUE_NOTIFY_OFFSET == 80 \div AddrUnit
\* The order of the queues of a net device with one RX/TX pair.
RXQ_INDEX == 0
TXQ_INDEX == 1

\* The ranges add_net_device can hand to the device.
DeviceStarts == {MMIO_GAP_START, MMIO_GAP_START + NET_MMIO_SIZE}
\* The sizes the guest's driver can give a queue before DRIVER_OK.
GuestQueueSizes == {VIRTIO_NET_QUEUE_SIZE \div 2, VIRTIO_NET_QUEUE_SIZE}

Threads == {"main", "vcpu"}

VARIABLES
    ac_range,       \* mmio_range.start()
    ac_queues,      \* virtio_cfg.queues, each queue with its place at new
    ac_vm_ioevents, \* the ioevents registered with the VM
    ac_ioevents,    \* the Vec<EventFd> of register_queue_events
    ac_handler,     \* VirtioNetDevice.handler
    ac_pc,          \* the vCPU thread: the call it is in
    ac_main,        \* the thread inside VMM::run: the call it is in
    ac_held,        \* the mutexes each thread holds
    ac_running,     \* running
    ac_channel,     \* the closure of call_blocking: none, sent, done
    ac_ret          \* what activate returned

ac_vars ==
    <<ac_range, ac_queues, ac_vm_ioevents, ac_ioevents, ac_handler, ac_pc,
      ac_main, ac_held, ac_running, ac_channel, ac_ret>>

NoHandler == [none |-> TRUE]

\* VirtioNetDevice::new for the range at start (two queues of
\* VIRTIO_NET_QUEUE_SIZE, handler None), the guest's driver having set the
\* queue sizes; run has started the vCPU thread, which is in the guest, and
\* is at the head of its loop.
AcBegin(start, size0, size1) ==
    /\ ac_range = start
    /\ ac_queues =
           <<[index |-> 0,
              queue |-> [Queue_new(VIRTIO_NET_QUEUE_SIZE) EXCEPT !.size = size0]],
             [index |-> 1,
              queue |-> [Queue_new(VIRTIO_NET_QUEUE_SIZE) EXCEPT !.size = size1]]>>
    /\ ac_vm_ioevents = {}
    /\ ac_ioevents = <<>>
    /\ ac_handler = NoHandler
    /\ ac_pc = "guest"
    /\ ac_main = "loop_check"
    /\ ac_held = [t \in Threads |-> {}]
    /\ ac_running = TRUE
    /\ ac_channel = "none"
    /\ ac_ret = "none"

AcIdle == AcBegin(MMIO_GAP_START, VIRTIO_NET_QUEUE_SIZE, VIRTIO_NET_QUEUE_SIZE)

\* The guest writes DRIVER_OK to the status register: the run ioctl exits,
\* the vCPU thread locks the Arc<Mutex<VirtioNetDevice>> to call mmio_write
\* (&mut self), and the transport calls activate(&mut self).
vcpu_mmio_write_status ==
    /\ ac_pc = "guest"
    /\ ac_ret = "none"
    /\ ac_pc' = "setup_tap"
    /\ ac_held' = [ac_held EXCEPT !["vcpu"] = @ \cup {"virtio_net"}]
    /\ UNCHANGED <<ac_range, ac_queues, ac_vm_ioevents, ac_ioevents,
                   ac_handler, ac_main, ac_running, ac_channel, ac_ret>>

\* activate returns ret through mmio_write, the guard of the device is
\* dropped and vcpu.run() returns.
activate_return(ret) ==
    /\ ac_ret' = ret
    /\ ac_pc' = "check"
    /\ ac_held' = [ac_held EXCEPT !["vcpu"] = @ \ {"virtio_net"}]

\* setup_tap: Tap::open_named, set_offload, set_vnet_hdr_size; an error
\* leaves activate with `?`.
activate_setup_tap(ok) ==
    /\ ac_pc = "setup_tap"
    /\ IF ok
       THEN /\ ac_pc' = "register_queue_events"
            /\ UNCHANGED <<ac_held, ac_ret>>
       ELSE activate_return("Err")
    /\ UNCHANGED <<ac_range, ac_queues, ac_vm_ioevents, ac_ioevents,
                   ac_handler, ac_main, ac_running, ac_channel>>

\* register_queue_events, one turn of `for i in 0..queues.len()`: a new
\* eventfd, register_ioevent at mmio_range.start() +
\* VIRTIO_MMIO_QUEUE_NOTIFY_OFFSET with datamatch i, push.  An error leaves
\* with `?` and drops the Vec.
activate_register_queue_events(ok) ==
    LET i == Len(ac_ioevents)
        fd == i + 1
    IN  /\ ac_pc = "register_queue_events"
        /\ IF ok
           THEN /\ ac_vm_ioevents' = ac_vm_ioevents \cup
                      {[addr |-> ac_range + VIRTIO_MMIO_QUEUE_NOTIFY_OFFSET,
                        datamatch |-> i, fd |-> fd]}
                /\ ac_ioevents' = Append(ac_ioevents, fd)
                /\ ac_pc' = IF i + 1 = Len(ac_queues) THEN "setup_handler"
                            ELSE "register_queue_events"
                /\ UNCHANGED <<ac_held, ac_ret>>
           ELSE /\ ac_ioevents' = <<>>
                /\ UNCHANGED ac_vm_ioevents
                /\ activate_return("Err")
        /\ UNCHANGED <<ac_range, ac_queues, ac_handler, ac_main, ac_running,
                       ac_channel>>

\* setup_handler with `let [tx_ioevent, rx_ioevent] = queue_eventfds`.
activate_setup_handler_ioevents_swapped ==
    /\ ac_pc = "setup_handler"
    /\ ac_handler' = [rxq |-> ac_queues[1], txq |-> ac_queues[2],
                      rx_ioevent |-> ac_ioevents[2],
                      tx_ioevent |-> ac_ioevents[1]]
    /\ ac_queues' = Tail(Tail(ac_queues))
    /\ ac_ioevents' = <<>>
    /\ ac_pc' = "register_handler"
    /\ UNCHANGED <<ac_range, ac_vm_ioevents, ac_main, ac_held, ac_running,
                   ac_channel, ac_ret>>

\* setup_handler: rxq = queues.remove(0), txq = queues.remove(0),
\* [rx_ioevent, tx_ioevent] = queue_eventfds, SimpleHandler::new of them;
\* activate stores the handler.
activate_setup_handler ==
    /\ ac_pc = "setup_handler"
    /\ ac_handler' = [rxq |-> Head(ac_queues), txq |-> Head(Tail(ac_queues)),
                      rx_ioevent |-> ac_ioevents[1],
                      tx_ioevent |-> ac_ioevents[2]]
    /\ ac_queues' = Tail(Tail(ac_queues))
    /\ ac_ioevents' = <<>>
    /\ ac_pc' = "register_handler"
    /\ UNCHANGED <<ac_range, ac_vm_ioevents, ac_main, ac_held, ac_running,
                   ac_channel, ac_ret>>

\* register_handler: endpoint.call_blocking sends the closure to the event
\* manager and waits for its result.
activate_register_handler ==
    /\ ac_pc = "register_handler"
    /\ ac_channel = "none"
    /\ ac_channel' = "sent"
    /\ ac_pc' = "call_blocking"
    /\ UNCHANGED <<ac_range, ac_queues, ac_vm_ioevents, ac_ioevents,
                   ac_handler, ac_main, ac_held, ac_running, ac_ret>>

\* The result of the closure arrives: call_blocking returns, activate
\* returns Ok(()).
call_blocking_return ==
    /\ ac_pc = "call_blocking"
    /\ ac_channel = "done"
    /\ activate_return("Ok")
    /\ UNCHANGED <<ac_range, ac_queues, ac_vm_ioevents, ac_ioevents,
                   ac_handler, ac_main, ac_running, ac_channel>>

\* The guest reads or writes a port of the serial device: the vCPU thread
\* locks the serial for the access.
vcpu_pio_serial ==
    /\ ac_pc = "guest"
    /\ "serial" \notin ac_held["main"]
    /\ ac_pc' = "serial_pio"
    /\ ac_held' = [ac_held EXCEPT !["vcpu"] = @ \cup {"serial"}]
    /\ UNCHANGED <<ac_range, ac_queues, ac_vm_ioevents, ac_ioevents,
                   ac_handler, ac_main, ac_running, ac_channel, ac_ret>>

\* The access is done: the guard is dropped, vcpu.run() returns.
vcpu_pio_return ==
    /\ ac_pc = "serial_pio"
    /\ ac_pc' = "check"
    /\ ac_held' = [ac_held EXCEPT !["vcpu"] = @ \ {"serial"}]
    /\ UNCHANGED <<ac_range, ac_queues, ac_vm_ioevents, ac_ioevents,
                   ac_handler, ac_main, ac_running, ac_channel, ac_ret>>

\* The run ioctl returns without work for a device (HLT, or EINTR of the
\* SIGUSR1 of join_vcpus).
vcpu_run_returns ==
    /\ ac_pc = "guest"
    /\ ac_pc' = "check"
    /\ UNCHANGED <<ac_range, ac_queues, ac_vm_ioevents, ac_ioevents,
                   ac_handler, ac_main, ac_held, ac_running, ac_channel,
                   ac_ret>>

\* while vcpu_running.load(): vcpu.run() again, or the thread finishes.
vcpu_loop_check ==
    /\ ac_pc = "check"
    /\ ac_pc' = IF ac_running THEN "guest" ELSE "finished"
    /\ UNCHANGED <<ac_range, ac_queues, ac_vm_ioevents, ac_ioevents,
                   ac_handler, ac_main, ac_held, ac_running, ac_channel,
                   ac_ret>>

\* Another vCPU's thread handles SHUTDOWN: it clears running.
other_vcpu_shutdown ==
    /\ ac_running
    /\ ac_running' = FALSE
    /\ UNCHANGED <<ac_range, ac_queues, ac_vm_ioevents, ac_ioevents,
                   ac_handler, ac_pc, ac_main, ac_held, ac_channel, ac_ret>>

\* run: while running.load() { run_with_timeout(100) }, then join_vcpus.
main_loop_check ==
    /\ ac_main = "loop_check"
    /\ ac_main' = IF ac_running THEN "epoll_wait" ELSE "join_vcpus"
    /\ UNCHANGED <<ac_range, ac_queues, ac_vm_ioevents, ac_ioevents,
                   ac_handler, ac_pc, ac_held, ac_running, ac_channel, ac_ret>>

\* run_with_timeout returns after 100 ms without an event.
run_with_timeout_idle ==
    /\ ac_main = "epoll_wait"
    /\ ac_main' = "loop_check"
    /\ UNCHANGED <<ac_range, ac_queues, ac_vm_ioevents, ac_ioevents,
                   ac_handler, ac_pc, ac_held, ac_running, ac_channel, ac_ret>>

\* run_with_timeout has an event of stdin: the event manager locks the
\* subscriber (Arc<Mutex<StdinHandler>>) and calls process.
stdin_process_begin ==
    /\ ac_main = "epoll_wait"
    /\ ac_main' = "StdinHandler::process"
    /\ ac_held' = [ac_held EXCEPT !["main"] = @ \cup {"stdin_handler"}]
    /\ UNCHANGED <<ac_range, ac_queues, ac_vm_ioevents, ac_ioevents,
                   ac_handler, ac_pc, ac_running, ac_channel, ac_ret>>

\* process with bytes read: self.serial.lock().unwrap() for
\* enqueue_raw_bytes.
stdin_process_lock_serial ==
    /\ ac_main = "StdinHandler::process"
    /\ "serial" \notin ac_held["vcpu"]
    /\ ac_main' = "enqueue_raw_bytes"
    /\ ac_held' = [ac_held EXCEPT !["main"] = @ \cup {"serial"}]
    /\ UNCHANGED <<ac_range, ac_queues, ac_vm_ioevents, ac_ioevents,
                   ac_handler, ac_pc, ac_running, ac_channel, ac_ret>>

\* process returns: the guard of the serial, then the guard of the
\* subscriber, are dropped; run_with_timeout returns.
stdin_process_return ==
    /\ ac_main = "enqueue_raw_bytes"
    /\ ac_main' = "loop_check"
    /\ ac_held' = [ac_held EXCEPT !["main"] = {}]
    /\ UNCHANGED <<ac_range, ac_queues, ac_vm_ioevents, ac_ioevents,
                   ac_handler, ac_pc, ac_running, ac_channel, ac_ret>>

\* run_with_timeout has the event of the remote endpoint: the event manager
\* runs the closure (add_subscriber of the handler) and sends its result.
run_with_timeout_remote ==
    /\ ac_main = "epoll_wait"
    /\ ac_channel = "sent"
    /\ ac_channel' = "done"
    /\ ac_main' = "loop_check"
    /\ UNCHANGED <<ac_range, ac_queues, ac_vm_ioevents, ac_ioevents,
                   ac_handler, ac_pc, ac_held, ac_running, ac_ret>>

\* join_vcpus: handle.join() returns once the thread has finished; run
\* returns.
join_vcpus_return ==
    /\ ac_main = "join_vcpus"
    /\ ac_pc = "finished"
    /\ ac_main' = "returned"
    /\ UNCHANGED <<ac_range, ac_queues, ac_vm_ioevents, ac_ioevents,
                   ac_handler, ac_pc, ac_held, ac_running, ac_channel, ac_ret>>

----------------------------------------------------------------------------
(* run_initramfs beside the QEMU child and the wall clock                  *)
(* (src/agent/src/qemu.rs): when the call reads, when it waits, and when   *)
(* its timer runs.  What the lines hold is the business of the group of    *)
(* run_initramfs above.                                                    *)

\* Lines the child prints in one run.
MaxChildLines == 3
\* Periods of 30 seconds of wall clock that are told apart.
MaxPeriods == 2

VARIABLES
    qt_pc,       \* run_initramfs: next_line, wait, returned
    qt_child,    \* the child: running, exited, killed
    qt_stdout,   \* the write end of the child's stdout: open, closed
    qt_printed,  \* lines the child has printed
    qt_unread,   \* lines in the pipe that next_line has not returned
    qt_elapsed,  \* periods of 30 seconds since the call began
    qt_timer,    \* the timer of tokio::time::timeout: off, armed, expired
    qt_result    \* what run_initramfs returned

qt_vars ==
    <<qt_pc, qt_child, qt_stdout, qt_printed, qt_unread, qt_elapsed, qt_timer,
      qt_result>>

\* The child is spawned with its stdout piped and the loop is about to read
\* its first line.
QtInit ==
    /\ qt_pc = "next_line"
    /\ qt_child = "running"
    /\ qt_stdout = "open"
    /\ qt_printed = 0
    /\ qt_unread = 0
    /\ qt_elapsed = 0
    /\ qt_timer = "off"
    /\ qt_result = "none"

\* The child prints a line.
child_prints ==
    /\ qt_child = "running" /\ qt_stdout = "open"
    /\ qt_printed < MaxChildLines
    /\ qt_printed' = qt_printed + 1
    /\ qt_unread' = qt_unread + 1
    /\ UNCHANGED <<qt_pc, qt_child, qt_stdout, qt_elapsed, qt_timer, qt_result>>

\* The child closes its stdout and goes on running.
child_closes_stdout ==
    /\ qt_child = "running" /\ qt_stdout = "open"
    /\ qt_stdout' = "closed"
    /\ UNCHANGED <<qt_pc, qt_child, qt_printed, qt_unread, qt_elapsed,
                   qt_timer, qt_result>>

\* The child exits; its descriptors are closed.
child_exits ==
    /\ qt_child = "running"
    /\ qt_child' = "exited"
    /\ qt_stdout' = "closed"
    /\ UNCHANGED <<qt_pc, qt_printed, qt_unread, qt_elapsed, qt_timer,
                   qt_result>>

\* Thirty more seconds of wall clock pass; a timer that was armed before
\* them has expired.
time_passes ==
    /\ qt_pc # "returned"
    /\ qt_elapsed' = Min(qt_elapsed + 1, MaxPeriods)
    /\ qt_timer' = IF qt_timer = "armed" THEN "expired" ELSE qt_timer
    /\ UNCHANGED <<qt_pc, qt_child, qt_stdout, qt_printed, qt_unread,
                   qt_result>>

\* reader.next_line().await returns Some(line): the body of the loop runs.
reader_next_line_some ==
    /\ qt_pc = "next_line"
    /\ qt_unread > 0
    /\ qt_unread' = qt_unread - 1
    /\ UNCHANGED <<qt_pc, qt_child, qt_stdout, qt_printed, qt_elapsed,
                   qt_timer, qt_result>>

\* reader.next_line().await returns None, which it does at the end of the
\* stream only: the loop ends, and timeout(30 s, child.wait()) arms its
\* timer.
reader_next_line_none ==
    /\ qt_pc = "next_line"
    /\ qt_unread = 0
    /\ qt_stdout = "closed"
    /\ qt_pc' = "wait"
    /\ qt_timer' = "armed"
    /\ UNCHANGED <<qt_child, qt_stdout, qt_printed, qt_unread, qt_elapsed,
                   qt_result>>

\* child.wait() completes before the timer: Ok(ExecutionResult).
child_wait_returns ==
    /\ qt_pc = "wait"
    /\ qt_child = "exited"
    /\ qt_pc' = "returned"
    /\ qt_result' = "Ok"
    /\ UNCHANGED <<qt_child, qt_stdout, qt_printed, qt_unread, qt_elapsed,
                   qt_timer>>

\* The timer expires first: child.kill(), Err("QEMU execution timed out
\* after 30 seconds").
timeout_fires ==
    /\ qt_pc = "wait"
    /\ qt_timer = "expired"
    /\ qt_child = "running"
    /\ qt_child' = "killed"
    /\ qt_stdout' = "closed"
    /\ qt_pc' = "returned"
    /\ qt_result' = "timeout"
    /\ UNCHANGED <<qt_printed, qt_unread, qt_elapsed, qt_timer>>

----------------------------------------------------------------------------
(* Specifications.                                                         *)

\* The variables of the stand-alone parts, and the parts before any step.
parts ==
    <<rx_vars, tx_vars, ip_vars, qemu_vars, init_vars, cv_vars, nw_vars,
      ev_vars, ac_vars, qt_vars>>
PartsIdle ==
    /\ RxInit /\ TxIdle /\ IpIdle /\ QemuInit /\ GuestIdle /\ CvInit /\ NwIdle
    /\ EvIdle /\ AcIdle /\ QtInit

vars == <<vmm_vars, ia_vars, fmt_vars, net_vars, parts>>

not_vmm == <<ia_vars, fmt_vars, net_vars, parts>>
core_vars == <<vmm_vars, ia_vars, fmt_vars, net_vars>>

Init == VmmInit /\ IaIdle /\ FmtIdle /\ NetInit /\ PartsIdle

Next ==
    \/ \E new_ok \in BOOLEAN : add_net_device(new_ok) /\ UNCHANGED not_vmm
    \/ \E num_vcpus \in NumVcpus : \E fail_at \in -1..num_vcpus :
           configure(num_vcpus, fail_at) /\ UNCHANGED not_vmm
    \/ stop /\ UNCHANGED not_vmm
    \/ run_begin /\ UNCHANGED not_vmm
    \/ start_vcpus_spawn /\ UNCHANGED not_vmm
    \/ start_vcpus_done /\ UNCHANGED not_vmm
    \/ loop_wait /\ UNCHANGED not_vmm
    \/ loop_exit /\ UNCHANGED not_vmm
    \/ join_vcpus_signal /\ UNCHANGED not_vmm
    \/ join_vcpus_join /\ UNCHANGED not_vmm
    \/ run_return /\ UNCHANGED not_vmm
    \/ \E t \in DOMAIN threads : vcpu_record_tid(t) /\ UNCHANGED not_vmm
    \/ \E t \in DOMAIN threads : vcpu_check(t) /\ UNCHANGED not_vmm
    \/ \E t \in DOMAIN threads : vcpu_enter(t) /\ UNCHANGED not_vmm
    \/ \E t \in DOMAIN threads : vcpu_eintr(t) /\ UNCHANGED not_vmm
    \/ \E t \in DOMAIN threads : vcpu_signal_handler(t) /\ UNCHANGED not_vmm
    \/ \E t \in DOMAIN threads : \E kind \in {"io", "shutdown"} :
           vcpu_exit(t, kind) /\ UNCHANGED not_vmm

\* The VMM: the calls of its API, run's own steps, the vCPU threads and the
\* guest.
Spec == Init /\ [][Next]_vars

\* The same, with the host scheduler running the thread that owns the VMM
\* and every vCPU thread; the guest is free never to exit.
FairSpec ==
    /\ Spec
    /\ WF_vars(MainStep /\ UNCHANGED not_vmm)
    /\ \A t \in 1..MaxVcpus : WF_vars(VcpuStep(t) /\ UNCHANGED not_vmm)

IrqInit == VmmInit /\ IaInit /\ FmtIdle /\ NetInit /\ PartsIdle
IrqNext == ia_allocate /\ UNCHANGED <<vmm_vars, fmt_vars, net_vars, parts>>
IrqSpec == IrqInit /\ [][IrqNext]_vars

CmdlineInit == VmmInit /\ IaIdle /\ FmtInit /\ NetInit /\ PartsIdle
CmdlineNext ==
    fmt_cmdline_string /\ UNCHANGED <<vmm_vars, ia_vars, net_vars, parts>>
CmdlineSpec == CmdlineInit /\ [][CmdlineNext]_vars

NetDeviceInit == VmmInit /\ IaIdle /\ FmtIdle /\ NetInit /\ PartsIdle
NetNext ==
    /\ \E status \in StatusWrites : \E tap_ok \in BOOLEAN :
         \E ioevent_fail_at \in -1 .. 1 :
           mmio_write_status(status, tap_ok, ioevent_fail_at)
    /\ UNCHANGED <<vmm_vars, ia_vars, fmt_vars, parts>>
NetSpec == NetDeviceInit /\ [][NetNext]_vars

\* VMM::new with any memory size, followed by the calls that precede run.
NewInit ==
    /\ \E memory_size \in MemorySizes : VmmNew(memory_size)
    /\ IaIdle /\ FmtIdle /\ NetInit /\ PartsIdle
NewNext ==
    \/ \E new_ok \in BOOLEAN : add_net_device(new_ok) /\ UNCHANGED not_vmm
    \/ \E num_vcpus \in NumVcpus : \E fail_at \in -1..num_vcpus :
           configure(num_vcpus, fail_at) /\ UNCHANGED not_vmm
    \/ stop /\ UNCHANGED not_vmm
NewSpec == NewInit /\ [][NewNext]_vars

\* The device every part starts from.
CoreIdle == VmmInit /\ IaIdle /\ FmtIdle /\ NetInit

\* Host stdin feeding the serial receiver while the guest reads RBR.
not_rx ==
    <<core_vars, tx_vars, ip_vars, qemu_vars, init_vars, cv_vars,
      nw_vars, ev_vars, ac_vars, qt_vars>>
not_tx ==
    <<core_vars, rx_vars, ip_vars, qemu_vars, init_vars, cv_vars,
      nw_vars, ev_vars, ac_vars, qt_vars>>

StdinInit ==
    CoreIdle /\ RxInit /\ TxIdle /\ IpIdle /\ QemuInit /\ GuestIdle /\ CvInit
    /\ NwIdle /\ EvIdle /\ AcIdle /\ QtInit
StdinNext ==
    \/ \E n \in 1 .. STDIN_BUF_LEN : \E all_or_nothing \in BOOLEAN :
           process(n, all_or_nothing) /\ UNCHANGED not_rx
    \/ read_rbr /\ UNCHANGED not_rx
StdinSpec == StdinInit /\ [][StdinNext]_vars

\* The guest writing to THR through a MultiWriter of any configuration.
SerialTxInit ==
    CoreIdle /\ RxInit /\ TxInit /\ IpIdle /\ QemuInit /\ GuestIdle /\ CvInit
    /\ NwIdle /\ EvIdle /\ AcIdle /\ QtInit
SerialTxNext ==
    \/ \E len \in 1 .. MaxWriteLen : write_all_begin(len) /\ UNCHANGED not_tx
    \/ \E accepted \in 1 .. MaxWriteLen :
           write_all_turn(accepted) /\ UNCHANGED not_tx
SerialTxSpec == SerialTxInit /\ [][SerialTxNext]_vars

\* IpManager instances on one state file, called one call at a time.
not_ip ==
    <<core_vars, rx_vars, tx_vars, qemu_vars, init_vars, cv_vars,
      nw_vars, ev_vars, ac_vars, qt_vars>>

IpManagerInit ==
    CoreIdle /\ RxInit /\ TxIdle /\ IpInit /\ QemuInit /\ GuestIdle /\ CvInit
    /\ NwIdle /\ EvIdle /\ AcIdle /\ QtInit
IpNext ==
    \/ \E vm_id \in VmIds : allocate_ip(vm_id) /\ UNCHANGED not_ip
    \/ \E vm_id \in VmIds : release_ip(vm_id) /\ UNCHANGED not_ip
    \/ IpManager_new /\ UNCHANGED not_ip
IpSpec == IpManagerInit /\ [][IpNext]_vars

\* One run of run_initramfs over the lines a guest prints.
not_qemu ==
    <<core_vars, rx_vars, tx_vars, ip_vars, init_vars, cv_vars,
      nw_vars, ev_vars, ac_vars, qt_vars>>

RunInitramfsInit ==
    CoreIdle /\ RxInit /\ TxIdle /\ IpIdle /\ QemuInit /\ GuestIdle /\ CvInit
    /\ NwIdle /\ EvIdle /\ AcIdle /\ QtInit
QemuNext ==
    \/ \E line \in GuestLines : next_line(line) /\ UNCHANGED not_qemu
    \/ \E timed_out \in BOOLEAN :
           run_initramfs_return(timed_out) /\ UNCHANGED not_qemu
QemuSpec == RunInitramfsInit /\ [][QemuNext]_vars

\* The guest running the init script of an image, to its end.
not_init ==
    <<core_vars, rx_vars, tx_vars, ip_vars, qemu_vars, cv_vars,
      nw_vars, ev_vars, ac_vars, qt_vars>>

InitScriptInit ==
    CoreIdle /\ RxInit /\ TxIdle /\ IpIdle /\ QemuInit /\ GuestInit /\ CvInit
    /\ NwIdle /\ EvIdle /\ AcIdle /\ QtInit
InitScriptNext ==
    \/ \E status \in CommandStatuses : \E output \in CommandOutputs :
           sh_run(status, output) /\ UNCHANGED not_init
    \/ sh_echo /\ UNCHANGED not_init
    \/ \E status \in CommandStatuses : \E output \in CommandOutputs :
           sh_or_fail(status, output) /\ UNCHANGED not_init
    \/ sh_assign /\ UNCHANGED not_init
    \/ sh_echo_exit_code /\ UNCHANGED not_init
    \/ \E powered_off \in BOOLEAN : sh_or_exit(powered_off) /\ UNCHANGED not_init
InitScriptSpec == InitScriptInit /\ [][InitScriptNext]_vars

\* configure_vcpus called on one VMM, step by step.
not_cv ==
    <<core_vars, rx_vars, tx_vars, ip_vars, qemu_vars, init_vars, nw_vars,
      ev_vars, ac_vars, qt_vars>>

BringUpInit ==
    CoreIdle /\ RxInit /\ TxIdle /\ IpIdle /\ QemuInit /\ GuestIdle /\ CvInit
    /\ NwIdle /\ EvIdle /\ AcIdle /\ QtInit
BringUpNext ==
    \/ \E num_vcpus \in NumVcpus : \E kernel_load \in KernelEntries :
           configure_vcpus_begin(num_vcpus, kernel_load) /\ UNCHANGED not_cv
    \/ \E ok \in BOOLEAN : setup_mptable(ok) /\ UNCHANGED not_cv
    \/ \E ok \in BOOLEAN : get_supported_cpuid(ok) /\ UNCHANGED not_cv
    \/ \E ok \in BOOLEAN : Vcpu_new(ok) /\ UNCHANGED not_cv
    \/ \E ok \in BOOLEAN : vcpu_configure(ok) /\ UNCHANGED not_cv
    \/ vcpus_push /\ UNCHANGED not_cv
    \/ configure_vcpus_return /\ UNCHANGED not_cv
BringUpSpec == BringUpInit /\ [][BringUpNext]_vars

\* VMM::new step by step with any memory size, then configure.
not_nw ==
    <<core_vars, rx_vars, tx_vars, ip_vars, qemu_vars, init_vars, cv_vars,
      ev_vars, ac_vars, qt_vars>>

NewStepsInit ==
    /\ CoreIdle /\ RxInit /\ TxIdle /\ IpIdle /\ QemuInit /\ GuestIdle /\ CvInit
    /\ EvIdle /\ AcIdle /\ QtInit
    /\ \E memory_size \in MemorySizes : NwBegin(memory_size)
NewStepsNext ==
    \/ \E ok \in BOOLEAN : new_step(ok) /\ UNCHANGED not_nw
    \/ new_return /\ UNCHANGED not_nw
    \/ configure_after_new /\ UNCHANGED not_nw
NewStepsSpec == NewStepsInit /\ [][NewStepsNext]_vars

\* The event manager calling the StdinHandler while the host writes to and
\* closes stdin; the event loop keeps turning as long as it has an event to
\* report.
not_ev ==
    <<core_vars, rx_vars, tx_vars, ip_vars, qemu_vars, init_vars, cv_vars,
      nw_vars, ac_vars, qt_vars>>

StdinEventsInit ==
    /\ CoreIdle /\ RxInit /\ TxIdle /\ IpIdle /\ QemuInit /\ GuestIdle /\ CvInit
    /\ NwIdle /\ AcIdle /\ QtInit
    /\ \E kind \in InputKinds : StdinHandler_init(kind)
EventLoopTurn ==
    \E read_fails \in BOOLEAN : \E enqueue_ok \in BOOLEAN :
        \E n \in 1 .. STDIN_BUF_LEN :
            run_with_timeout(read_fails, enqueue_ok, n) /\ UNCHANGED not_ev
StdinEventsNext ==
    \/ \E n \in 1 .. MaxStdinWritten : host_write(n) /\ UNCHANGED not_ev
    \/ host_close /\ UNCHANGED not_ev
    \/ EventLoopTurn
StdinEventsSpec ==
    StdinEventsInit /\ [][StdinEventsNext]_vars /\ WF_vars(EventLoopTurn)

\* The guest's driver activating the net device from a vCPU thread while the
\* thread inside run turns the event loop and another vCPU can shut the VM
\* down.  Each thread goes on with the call it is in, and the event manager
\* serves a closure sent to it in a turn of its loop.
not_ac ==
    <<core_vars, rx_vars, tx_vars, ip_vars, qemu_vars, init_vars, cv_vars,
      nw_vars, ev_vars, qt_vars>>

ActivateInit ==
    /\ CoreIdle /\ RxInit /\ TxIdle /\ IpIdle /\ QemuInit /\ GuestIdle /\ CvInit
    /\ NwIdle /\ EvIdle /\ QtInit
    /\ \E start \in DeviceStarts : \E size0 \in GuestQueueSizes :
           \E size1 \in GuestQueueSizes : AcBegin(start, size0, size1)
VcpuThreadStep ==
    /\ \/ \E ok \in BOOLEAN : activate_setup_tap(ok)
       \/ \E ok \in BOOLEAN : activate_register_queue_events(ok)
       \/ activate_setup_handler
       \/ activate_register_handler
       \/ call_blocking_return
       \/ vcpu_pio_return
       \/ vcpu_run_returns
       \/ vcpu_loop_check
    /\ UNCHANGED not_ac
ServeRemote == run_with_timeout_remote /\ UNCHANGED not_ac
MainThreadStep ==
    /\ \/ main_loop_check
       \/ run_with_timeout_idle
       \/ stdin_process_begin
       \/ stdin_process_lock_serial
       \/ stdin_process_return
       \/ run_with_timeout_remote
       \/ join_vcpus_return
    /\ UNCHANGED not_ac
ActivateNext ==
    \/ vcpu_mmio_write_status /\ UNCHANGED not_ac
    \/ \E ok \in BOOLEAN : activate_setup_tap(ok) /\ UNCHANGED not_ac
    \/ \E ok \in BOOLEAN :
           activate_register_queue_events(ok) /\ UNCHANGED not_ac
    \/ activate_setup_handler /\ UNCHANGED not_ac
    \/ activate_register_handler /\ UNCHANGED not_ac
    \/ call_blocking_return /\ UNCHANGED not_ac
    \/ vcpu_pio_serial /\ UNCHANGED not_ac
    \/ vcpu_pio_return /\ UNCHANGED not_ac
    \/ vcpu_run_returns /\ UNCHANGED not_ac
    \/ vcpu_loop_check /\ UNCHANGED not_ac
    \/ other_vcpu_shutdown /\ UNCHANGED not_ac
    \/ main_loop_check /\ UNCHANGED not_ac
    \/ run_with_timeout_idle /\ UNCHANGED not_ac
    \/ stdin_process_begin /\ UNCHANGED not_ac
    \/ stdin_process_lock_serial /\ UNCHANGED not_ac
    \/ stdin_process_return /\ UNCHANGED not_ac
    \/ ServeRemote
    \/ join_vcpus_return /\ UNCHANGED not_ac
ActivateSpec ==
    /\ ActivateInit /\ [][ActivateNext]_vars
    /\ WF_vars(VcpuThreadStep) /\ WF_vars(MainThreadStep)
    /\ SF_vars(ServeRemote)

\* One call of run_initramfs beside its child and the clock.  The call
\* goes on whenever it can, and time passes.
not_qt ==
    <<core_vars, rx_vars, tx_vars, ip_vars, qemu_vars, init_vars, cv_vars,
      nw_vars, ev_vars, ac_vars>>

RunTimeoutInit ==
    /\ CoreIdle /\ RxInit /\ TxIdle /\ IpIdle /\ QemuInit /\ GuestIdle /\ CvInit
    /\ NwIdle /\ EvIdle /\ AcIdle /\ QtInit
LauncherStep ==
    /\ \/ reader_next_line_some
       \/ reader_next_line_none
       \/ child_wait_returns
       \/ timeout_fires
    /\ UNCHANGED not_qt
TimePasses == time_passes /\ UNCHANGED not_qt
RunTimeoutNext ==
    \/ child_prints /\ UNCHANGED not_qt
    \/ child_closes_stdout /\ UNCHANGED not_qt
    \/ child_exits /\ UNCHANGED not_qt
    \/ TimePasses
    \/ reader_next_line_some /\ UNCHANGED not_qt
    \/ reader_next_line_none /\ UNCHANGED not_qt
    \/ child_wait_returns /\ UNCHANGED not_qt
    \/ timeout_fires /\ UNCHANGED not_qt
RunTimeoutSpec ==
    /\ RunTimeoutInit /\ [][RunTimeoutNext]_vars
    /\ WF_vars(LauncherStep) /\ WF_vars(TimePasses)

----------------------------------------------------------------------------
(* Properties.                                                             *)

\* C1: once running is cleared while run is in progress, run eventually
\* returns (the event loop exits, every vCPU thread finishes, join_vcpus
\* joins them all).
C1_RunReturnsOnceCleared ==
    (main_pc # "idle" /\ ~running) ~> (main_pc = "idle")

\* C2: after stop has been called, run starts nothing: no vCPU thread is
\* spawned, the event loop is not entered, running is not set back to true.
C2_RunAfterStopFailsCleanly ==
    stop_called => (main_pc = "idle" /\ threads = <<>> /\ ~running)

\* C3: configure on a VMM that was configured successfully before returns
\* ALREADY_CONFIGURED and leaves the vCPU list as it was.
C3_SecondConfigureRejected ==
    (last_call.op = "configure" /\ last_call.pre_configured)
        => (last_call.ret = "AlreadyConfigured" /\ last_call.vcpus_unchanged)

\* C4: whenever a configured VMM holds a net device, every vCPU configure
\* created references that device and the fragments the kernel was loaded
\* with contain that device's fragment.
C4_NetDeviceKnownToConfigure ==
    (configured /\ virtio_net # NoDevice)
        => /\ \A i \in DOMAIN vcpus : vcpus[i].virtio_net = virtio_net
           /\ \A t \in DOMAIN threads : threads[t].vcpu.virtio_net = virtio_net
           /\ InSeq(cmdline_string(virtio_net.mmio_range, virtio_net.irq),
                    kernel_cmdline)

\* C5: every MMIO range handed to add_net_device is 0x1000 bytes long,
\* 0x1000-aligned, inside [MMIO_GAP_START, MMIO_GAP_END) and disjoint from
\* every range handed out before it.
C5_MmioRangesDisjointInWindow ==
    \A i \in DOMAIN alloc_results :
        alloc_results[i] # AllocError =>
            /\ RangeLen(alloc_results[i]) = 4096
            /\ alloc_results[i].start % (4096 \div AddrUnit) = 0
            /\ MMIO_GAP_START <= alloc_results[i].start
            /\ alloc_results[i].end < MMIO_GAP_END
            /\ \A j \in 1 .. i - 1 :
                   alloc_results[j] # AllocError =>
                       ~RangesOverlap(alloc_results[j], alloc_results[i])

C5_TwoRangesHandedOut ==
    /\ Len(alloc_results) >= 2
    /\ alloc_results[1] # AllocError
    /\ alloc_results[2] # AllocError

C8_RamBelowMmioGap ==
    \A m \in memslots : m.guest_phys_addr + m.memory_size <= MMIO_GAP_START

\* The sum of a u32 and a small natural number, not reduced modulo 2^32.
U32Plus(x, n) ==
    [hi |-> x.hi + ((x.lo + n) \div Limb), lo |-> (x.lo + n) % Limb]

U32Less(a, b) == a.hi < b.hi \/ (a.hi = b.hi /\ a.lo < b.lo)

\* C7: the k-th call of allocate on an IrqAllocator created with start s
\* returns s+k-1, a u32; the values returned increase strictly; allocate
\* panics only when the counter is u32::MAX, and then neither returns nor
\* wraps.
C7_IrqSequence ==
    /\ \A k \in DOMAIN ia_returned :
           /\ ia_returned[k] = U32Plus(ia_start, k - 1)
           /\ ia_returned[k].hi < Limb
           /\ \A j \in 1 .. k - 1 : U32Less(ia_returned[j], ia_returned[k])
    /\ ia_next = U32Plus(ia_start, Len(ia_returned))
    /\ ia_panicked => ia_next = U32_MAX

C7_PanicAfterAllocations ==
    ia_panicked /\ Len(ia_returned) >= 2

\* The value of a digit character, and of a digit string in a base.
DigitVal(c) == CHOOSE d \in 0 .. 15 : HexChars[d + 1] = c

RECURSIVE ParseNum(_, _)
ParseNum(str, base) ==
    IF str = <<>> THEN 0
    ELSE ParseNum(SubSeq(str, 1, Len(str) - 1), base) * base
             + DigitVal(str[Len(str)])

\* A non-empty string of digits of the base, without a leading zero.
IsNumeral(str, base) ==
    /\ str # <<>>
    /\ \A i \in DOMAIN str : \E d \in 0 .. base - 1 : HexChars[d + 1] = str[i]
    /\ Len(str) > 1 => str[1] # "0"

FirstIndex(str, c) ==
    CHOOSE i \in DOMAIN str : str[i] = c /\ \A j \in 1 .. i - 1 : str[j] # c

\* The text of a length: the quotient by the largest of 2^30 (G), 2^20 (M),
\* 2^10 (K) that divides it, then that suffix; the plain number otherwise.
IsLengthText(str, len) ==
    LET units == {u \in {2^10, 2^20, 2^30} : len % u = 0}
        unit == IF units = {} THEN 1
                ELSE CHOOSE u \in units : \A v \in units : v <= u
        suffix == IF unit = 2^30 THEN <<"G">>
                  ELSE IF unit = 2^20 THEN <<"M">>
                  ELSE IF unit = 2^10 THEN <<"K">>
                  ELSE <<>>
        digits == SubSeq(str, 1, Len(str) - Len(suffix))
    IN  /\ Len(str) > Len(suffix)
        /\ SubSeq(str, Len(digits) + 1, Len(str)) = suffix
        /\ IsNumeral(digits, 10)
        /\ ParseNum(digits, 10) * unit = len

\* The text of a byte address kept in address units: 0x, then lower-case hex
\* digits of 16 times the model value.
IsAddressText(str, a) ==
    LET digits == SubSeq(str, 3, Len(str))
    IN  /\ Len(str) >= 3
        /\ SubSeq(str, 1, 2) = <<"0", "x">>
        /\ IsNumeral(digits, 16)
        /\ digits[Len(digits)] = "0"
        /\ ParseNum(SubSeq(digits, 1, Len(digits) - 1), 16) = a

C9_ExampleRange == RangeInclusive(218103808, 218104063)

\* C9: cmdline_string is ` virtio_mmio.device=<len>@<start>:<irq>`: a leading
\* space, <len> with the largest of G, M, K that divides the length (plain
\* decimal otherwise), <start> 0x-prefixed lower-case hex, <irq> decimal; for
\* [0xD0000000, 0xD0001000) and IRQ 5 it is
\* ` virtio_mmio.device=4K@0xd0000000:5`.
C9_CmdlineString ==
    fmt_out # <<>> =>
        LET head == <<" ","v","i","r","t","i","o","_","m","m","i","o",".",
                      "d","e","v","i","c","e","=">>
            at == FirstIndex(fmt_out, "@")
            colon == FirstIndex(fmt_out, ":")
        IN  /\ InSeq("@", fmt_out) /\ InSeq(":", fmt_out)
            /\ SubSeq(fmt_out, 1, Len(head)) = head
            /\ Len(head) < at /\ at < colon /\ colon < Len(fmt_out)
            /\ IsLengthText(SubSeq(fmt_out, Len(head) + 1, at - 1),
                            RangeLen(fmt_range))
            /\ IsAddressText(SubSeq(fmt_out, at + 1, colon - 1), fmt_range.start)
            /\ IsNumeral(SubSeq(fmt_out, colon + 1, Len(fmt_out)), 10)
            /\ ParseNum(SubSeq(fmt_out, colon + 1, Len(fmt_out)), 10) = fmt_irq
            /\ (fmt_range = C9_ExampleRange /\ fmt_irq = 5) =>
                   fmt_out = head \o <<"4","K","@","0","x","d","0","0","0","0",
                                       "0","0","0",":","5">>

C9_ExampleFormatted ==
    fmt_out # <<>> /\ fmt_range = C9_ExampleRange /\ fmt_irq = 5

\* C10: once an activation has taken effect (the device has its handler), no
\* later write to the status register opens a TAP, registers a queue
\* ioevent, adds a handler subscriber or panics.
C10_ActivateTakesEffectOnce ==
    [][net_handler =>
          /\ net_taps_open' = net_taps_open
          /\ net_ioevents' = net_ioevents
          /\ net_subscribers' = net_subscribers
          /\ ~net_panicked']_vars

\* C11: a newly constructed net device carries exactly two queues, each of
\* size 256, and its feature word has exactly the bits 32, 29, 35, 0, 1, 7,
\* 8, 10, 11, 12 and 14.
C11_NewDeviceQueuesAndFeatures ==
    /\ net_features = {32, 29, 35, 0, 1, 7, 8, 10, 11, 12, 14}
    /\ net_activate_calls = 0 =>
           /\ Len(net_queues) = 2
           /\ \A i \in DOMAIN net_queues :
                  net_queues[i].max_size = 256 /\ net_queues[i].size = 256

C11_DriverSeesNewDevice ==
    /\ net_activate_calls = 0
    /\ net_status = {"ACKNOWLEDGE", "DRIVER"}
    /\ Len(net_queues) = 2

\* C12: the guest gets the bytes of the host's stdin stream at its RBR reads
\* in stream order, none lost and none twice: the i-th byte read is byte i.
C12_StdinBytesInOrderNoneLost ==
    \A i \in DOMAIN rbr_reads : rbr_reads[i] = i

DotsOf(str) == {i \in DOMAIN str : str[i] = "."}

OctetsOf(str) ==
    LET d1 == SetMin(DotsOf(str))
        d3 == CHOOSE i \in DotsOf(str) : \A j \in DotsOf(str) : j <= i
        d2 == CHOOSE i \in DotsOf(str) : i # d1 /\ i # d3
    IN  <<SubSeq(str, 1, d1 - 1), SubSeq(str, d1 + 1, d2 - 1),
          SubSeq(str, d2 + 1, d3 - 1), SubSeq(str, d3 + 1, Len(str))>>

IsIpv4Text(str) ==
    /\ Cardinality(DotsOf(str)) = 3
    /\ \A i \in 1 .. 4 :
           IsNumeral(OctetsOf(str)[i], 10) /\ ParseNum(OctetsOf(str)[i], 10) < 256

ParseIpv4(str) ==
    LET o == [i \in 1 .. 4 |-> ParseNum(OctetsOf(str)[i], 10)]
    IN  U32(o[1] * 256 + o[2], o[3] * 256 + o[4])

\* The addresses of [start_ip, end_ip], and those of them no VM of the map
\* holds.
MaxPoolSpan == 3
PoolAddresses(pool) ==
    {a \in {U32Plus(pool.start_ip, k) : k \in 0 .. MaxPoolSpan} :
        ~U32Less(pool.end_ip, a)}

FreeAddresses(pool, allocations) ==
    {a \in PoolAddresses(pool) :
        \A v \in DOMAIN allocations :
            IsIpv4Text(allocations[v]) => ParseIpv4(allocations[v]) # a}

TestPool ==
    [start_ip |-> U32(192 * 256 + 168, 256 + 10),
     end_ip |-> U32(192 * 256 + 168, 256 + 12)]

Ip_192_168_1(d) ==
    <<"1", "9", "2", ".", "1", "6", "8", ".", "1", ".">> \o FmtDec(d)

\* C14: allocate_ip for a VM ID that holds no address, while some address
\* of [start_ip, end_ip] is held by no VM, returns the text of the
\* numerically lowest such address, and the persisted map afterwards is the
\* map before with that address recorded for the VM ID.
C14_LowestFreeAddressRecorded ==
    (/\ ip_last.op = "allocate_ip"
     /\ ip_last.vm_id \notin DOMAIN ip_last.before
     /\ FreeAddresses(ip_pool, ip_last.before) # {})
        => /\ ip_last.result.kind = "Ok"
           /\ IsIpv4Text(ip_last.result.value)
           /\ ParseIpv4(ip_last.result.value)
                  \in FreeAddresses(ip_pool, ip_last.before)
           /\ \A a \in FreeAddresses(ip_pool, ip_last.before) :
                  ~U32Less(a, ParseIpv4(ip_last.result.value))
           /\ read_state(ip_file)
                  = [v \in DOMAIN ip_last.before \cup {ip_last.vm_id} |->
                        IF v = ip_last.vm_id THEN ip_last.result.value
                        ELSE ip_last.before[v]]

\* Three VM IDs have got .10, .11 and .12 of the pool .10-.12, in call order.
C14_ThreeVmsInCallOrder ==
    /\ ip_pool = TestPool
    /\ ip_last.op = "allocate_ip" /\ ip_last.vm_id = "vm-3"
    /\ ip_last.result = [kind |-> "Ok", value |-> Ip_192_168_1(12)]
    /\ ip_last.before = ("vm-1" :> Ip_192_168_1(10)) @@ ("vm-2" :> Ip_192_168_1(11))
    /\ read_state(ip_file)
           = ("vm-1" :> Ip_192_168_1(10)) @@ ("vm-2" :> Ip_192_168_1(11))
                 @@ ("vm-3" :> Ip_192_168_1(12))

\* C15: allocate_ip for a VM ID that holds no address, while every address
\* of [start_ip, end_ip] is held, returns PoolExhausted and leaves the
\* persisted map as it was.
C15_FullPoolIsExhausted ==
    (/\ ip_last.op = "allocate_ip"
     /\ ip_last.vm_id \notin DOMAIN ip_last.before
     /\ FreeAddresses(ip_pool, ip_last.before) = {})
        => /\ ip_last.result.kind = "PoolExhausted"
           /\ read_state(ip_file) = ip_last.before

\* C16: allocate_ip for a VM ID that holds an address returns that address
\* and leaves the persisted map as it was, whether or not the pool has a
\* free address.
C16_AllocateIdempotent ==
    (ip_last.op = "allocate_ip" /\ ip_last.vm_id \in DOMAIN ip_last.before)
        => /\ ip_last.result
                  = [kind |-> "Ok", value |-> ip_last.before[ip_last.vm_id]]
           /\ read_state(ip_file) = ip_last.before

\* A holder asked again while every address of the pool was held.
C16_HolderAsksAgainFullPool ==
    /\ ip_last.op = "allocate_ip" /\ ip_last.vm_id \in DOMAIN ip_last.before
    /\ PoolAddresses(ip_pool) # {}
    /\ FreeAddresses(ip_pool, ip_last.before) = {}

\* C17: release_ip(vm) returns true iff vm held an address; the persisted
\* map afterwards is the map before without vm's entry (the same map when
\* vm held none); the address released is held by no VM afterwards, and an
\* allocate_ip for the same VM that follows the release of an address of
\* the pool while every address of the pool was held returns the address
\* released.
C17_ReleaseFrame ==
    /\ [](ip_last.op = "release_ip" =>
             /\ ip_last.result
                    = [kind |-> "Ok",
                       value |-> ip_last.vm_id \in DOMAIN ip_last.before]
             /\ DOMAIN read_state(ip_file)
                    = DOMAIN ip_last.before \ {ip_last.vm_id}
             /\ \A v \in DOMAIN read_state(ip_file) :
                    read_state(ip_file)[v] = ip_last.before[v]
             /\ ip_last.vm_id \in DOMAIN ip_last.before =>
                    \A v \in DOMAIN read_state(ip_file) :
                        read_state(ip_file)[v] # ip_last.before[ip_last.vm_id])
    /\ [][(/\ ip_last.op = "release_ip"
            /\ ip_last.vm_id \in DOMAIN ip_last.before
            /\ FreeAddresses(ip_pool, ip_last.before) = {}
            /\ ParseIpv4(ip_last.before[ip_last.vm_id])
                   \in PoolAddresses(ip_pool)
            /\ ip_last'.op = "allocate_ip"
            /\ ip_last'.vm_id = ip_last.vm_id)
              => ip_last'.result
                     = [kind |-> "Ok",
                        value |-> ip_last.before[ip_last.vm_id]]]_vars

\* .10 was released from the full pool .10-.12 and given to the same VM
\* again.
C17_ReleasedAddressGivenAgain ==
    /\ ip_pool = TestPool
    /\ ip_last.op = "allocate_ip" /\ ip_last.vm_id = "vm-1"
    /\ DOMAIN ip_last.before = {"vm-2", "vm-3"}
    /\ ip_last.result = [kind |-> "Ok", value |-> Ip_192_168_1(10)]
    /\ Cardinality(DOMAIN read_state(ip_file)) = 3

\* C18: IpManager::new on an existing state file leaves the persisted map
\* as it was; the first allocate_ip of an instance for a VM ID without an
\* address returns an address no VM held, and every earlier allocation
\* stays.
C18_AllocationsPersist ==
    /\ ip_last.op = "new" => read_state(ip_file) = ip_last.before
    /\ (/\ ip_last.op = "allocate_ip" /\ ip_last.first
         /\ ip_last.vm_id \notin DOMAIN ip_last.before
         /\ ip_last.result.kind = "Ok")
            => /\ \A v \in DOMAIN ip_last.before :
                      /\ ip_last.result.value # ip_last.before[v]
                      /\ v \in DOMAIN read_state(ip_file)
                      /\ read_state(ip_file)[v] = ip_last.before[v]
               /\ read_state(ip_file)[ip_last.vm_id] = ip_last.result.value

\* A later instance, on a file with allocations, has allocated.
C18_LaterInstanceAllocates ==
    /\ ip_last.op = "allocate_ip" /\ ip_last.first
    /\ ip_last.vm_id \notin DOMAIN ip_last.before
    /\ ip_last.before # << >>
    /\ DOMAIN ip_last.before # {}
    /\ ip_last.result.kind = "Ok"

\* The lines of a run in which the index set is, the first of them, and the
\* text of an integer: an optional minus sign and a numeral.
LinesWith(pat) == {i \in DOMAIN guest_lines : Contains(guest_lines[i], pat)}

ExitCodeLines ==
    {i \in DOMAIN guest_lines : StartsWith(guest_lines[i], EXIT_CODE_PREFIX)}

RECURSIVE StripBlanks(_)
StripBlanks(str) ==
    IF str # <<>> /\ str[1] = " " THEN StripBlanks(Tail(str))
    ELSE IF str # <<>> /\ str[Len(str)] = " "
         THEN StripBlanks(SubSeq(str, 1, Len(str) - 1))
    ELSE str

IntegerOn(line) ==
    StripBlanks(SubSeq(line, Len(EXIT_CODE_PREFIX) + 1, Len(line)))

IsIntegerText(str) ==
    IF str # <<>> /\ str[1] = "-" THEN IsNumeral(Tail(str), 10)
    ELSE IsNumeral(str, 10)

IntegerValue(str) ==
    IF str[1] = "-" THEN 0 - ParseNum(Tail(str), 10) ELSE ParseNum(str, 10)

\* C19: the exit_code run_initramfs returns is 127 when no line read begins
\* with `Exit code:`, and otherwise the decimal integer on the first line
\* that does, whatever lines follow.
C19_ExitCodeOfFirstLine ==
    execution_result.kind = "Ok" =>
        IF ExitCodeLines = {} THEN execution_result.exit_code = 127
        ELSE LET first == guest_lines[SetMin(ExitCodeLines)]
             IN  IsIntegerText(IntegerOn(first)) =>
                     execution_result.exit_code = IntegerValue(IntegerOn(first))

RECURSIVE JoinLines(_)
JoinLines(lines) ==
    IF lines = <<>> THEN <<>>
    ELSE lines[1] \o <<"\n">> \o JoinLines(Tail(lines))

\* C20: when the guest printed each marker line once, the start marker
\* first, the stdout run_initramfs returns is the lines between the two,
\* in order, each followed by a newline.
C20_StdoutIsLinesBetweenMarkers ==
    (/\ execution_result.kind = "Ok"
     /\ \E p, e \in DOMAIN guest_lines :
            /\ p < e
            /\ LinesWith(PROGRAM_OUTPUT) = {p} /\ guest_lines[p] = PROGRAM_OUTPUT
            /\ LinesWith(END_OUTPUT) = {e} /\ guest_lines[e] = END_OUTPUT)
        => LET p == SetMin(LinesWith(PROGRAM_OUTPUT))
               e == SetMin(LinesWith(END_OUTPUT))
           IN  execution_result.stdout = JoinLines(SubSeq(guest_lines, p + 1, e - 1))

\* C21: when the compile command of the runtime fails in the guest, the
\* serial output has the line `Compilation failed` and the line
\* `Exit code: 1`, and run_initramfs over that output gives exit_code 1.
C21_CompileFailureReportsOne ==
    init_compile_failed =>
        /\ \E i \in DOMAIN serial_lines : serial_lines[i] = COMPILATION_FAILED
        /\ \E i \in DOMAIN serial_lines :
               serial_lines[i] = EXIT_CODE_TRIMMED \o <<"1">>
        /\ scan_lines(serial_lines).exit_code = 1

\* The steps the init script is to perform for a runtime, in order, with the
\* commands as the unit tests of the generator spell them.
PythonPayload ==
    <<"p", "y", "t", "h", "o", "n", "3", " ", "/", "l", "a", "m", "b",
      "d", "a", "/", "c", "o", "d", "e", ".", "p", "y">>
NodePayload ==
    <<"n", "o", "d", "e", " ", "/", "l", "a", "m", "b", "d", "a", "/",
      "c", "o", "d", "e", ".", "j", "s">>
RustCompile ==
    <<"r", "u", "s", "t", "c", " ", "-", "o", " ", "/", "l", "a", "m",
      "b", "d", "a", "/", "b", "i", "n", " ", "/", "l", "a", "m", "b",
      "d", "a", "/", "c", "o", "d", "e", ".", "r", "s">>
RustPayload ==
    <<"/", "l", "a", "m", "b", "d", "a", "/", "b", "i", "n">>

StepsFor(runtime) ==
    <<Sh("run", MOUNT_PROC), Sh("run", MOUNT_SYSFS), Sh("run", MOUNT_DEVTMPFS)>>
    \o (IF runtime = RustRuntime THEN <<Sh("or_fail", RustCompile)>> ELSE <<>>)
    \o <<Sh("echo", PROGRAM_OUTPUT),
         Sh("run", IF runtime = PythonRuntime THEN PythonPayload
                   ELSE IF runtime = NodeRuntime THEN NodePayload
                   ELSE RustPayload),
         Sh("echo", END_OUTPUT),
         Sh("echo_exit_code", <<>>),
         Sh("or_exit", POWEROFF)>>

\* The lines of the script that are none of those steps: the PATH, the
\* banner, the progress messages, the assignment and sync.
IsStep(line) ==
    /\ line.kind # "assign"
    /\ line.kind = "run" => line.text \notin {EXPORT_PATH, SYNC}
    /\ line.kind = "echo" =>
           line.text \notin {BANNER, COMPILING, COMPILATION_SUCCESSFUL}

IsPrefix(a, b) == Len(a) <= Len(b) /\ SubSeq(b, 1, Len(a)) = a

\* C22: for every runtime the steps the init script performs are, in this
\* order, the three mounts, the compile command iff the runtime has one,
\* the start marker, the payload command, the end marker, `Exit code:` with
\* the status the payload ended with, and poweroff -f; a run whose compiler
\* does not fail performs them all.
C22_StepsInOrder ==
    /\ IsPrefix(SelectSeq(init_performed, IsStep), StepsFor(init_runtime))
    /\ (init_over # "running" /\ ~init_compile_failed) =>
           SelectSeq(init_performed, IsStep) = StepsFor(init_runtime)
    /\ (init_performed # <<>>
            /\ init_performed[Len(init_performed)].kind = "echo_exit_code") =>
           serial_lines[Len(serial_lines)]
               = EXIT_CODE_TRIMMED \o FmtDec(init_payload)

\* The Rust image ran to poweroff and its payload ended with status 3.
C22_RustRunToPoweroff ==
    /\ init_runtime = RustRuntime
    /\ init_over = "poweroff"
    /\ init_payload = 3
    /\ Len(SelectSeq(init_performed, IsStep)) = 9

\* The steps the claim orders, as the log names them.
BringUpSteps ==
    <<"configure_cpuid", "configure_msrs", "configure_regs",
      "configure_sregs", "configure_fpu", "configure_lapic">>

RECURSIVE BringUpOrder(_, _)
\* The MP table, then for each of the indices from..num_vcpus-1 the steps
\* and the push.
BringUpOrder(from, num_vcpus) ==
    IF from >= num_vcpus THEN <<>>
    ELSE [k \in 1..Len(BringUpSteps) |-> <<BringUpSteps[k], from>>]
         \o <<<<"push", from>>>>
         \o BringUpOrder(from + 1, num_vcpus)

IsBringUpStep(entry) == entry[1] \notin {"get_supported_cpuid", "Vcpu::new"}

\* C25: configure_vcpus performs, after the MP-table setup, for each index
\* in order CPUID, MSRs, registers with RIP = the loader's kernel entry,
\* segment registers, FPU and LAPIC, and pushes a vCPU only once all its
\* steps succeeded; after a call that returned Ok the list holds exactly
\* the indices 0..num_vcpus-1, each once.
C25_BringUpInOrder ==
    /\ [](/\ IsPrefix(SelectSeq(cv_log, IsBringUpStep),
                      <<<<"setup_mptable", -1>>>>
                          \o BringUpOrder(0, cv_args.num_vcpus))
          /\ \A i \in 1..Len(cv_vcpus) :
                 cv_vcpus[i].applied = BringUpSteps
          /\ cv_ret = "Ok" =>
                 [i \in 1..Len(cv_vcpus) |-> cv_vcpus[i].index]
                     = [i \in 1..cv_args.num_vcpus |-> i - 1])
    /\ [][cv_vcpus' # cv_vcpus =>
              /\ Len(cv_vcpus') = Len(cv_vcpus) + 1
              /\ SubSeq(cv_vcpus', 1, Len(cv_vcpus)) = cv_vcpus
              /\ cv_vcpus'[Len(cv_vcpus')].rip = cv_args.kernel_load]_vars

\* A call for two vCPUs returned Ok after an earlier call had failed.
C25_TwoVcpusAfterFailedCall ==
    /\ cv_calls = 2
    /\ cv_ret = "Ok"
    /\ cv_args.num_vcpus = 2
    /\ Len(cv_vcpus) = 2

\* C23: once running is false and join_vcpus has sent its SIGUSR1s, no vCPU
\* thread sits in the run ioctl with its signal already consumed: a thread
\* in the ioctl while run waits in join still has the signal coming, which
\* ends the ioctl with EINTR.
C23_NoThreadLeftInRunIoctl ==
    (main_pc = "join_wait" /\ ~running) =>
        \A t \in DOMAIN threads :
            threads[t].pc = "kvm" => threads[t].sig

\* The vCPUs the threads of run own, in spawn order.
VcpusOf(ts) == [t \in DOMAIN ts |-> ts[t].vcpu]

NoDuplicates(q) == \A i, j \in DOMAIN q : q[i] = q[j] => i = j

\* C24: during run every configured vCPU is either still in the VMM's list
\* or owned by exactly one thread, never both and never by two threads;
\* a thread has recorded its id before it first reads running; and once run
\* has returned the VMM holds no vCPUs, no join handles and no thread ids.
C24_OneThreadPerVcpu ==
    /\ [](/\ NoDuplicates(VcpusOf(threads) \o vcpus)
          /\ NoDuplicates(vcpu_thread_ids)
          /\ \A t \in DOMAIN threads :
                 threads[t].pc # "start" => InSeq(t, vcpu_thread_ids)
          /\ (last_call.op = "run" /\ last_call.ret = "returned") =>
                 /\ vcpus = <<>>
                 /\ vcpu_handles = <<>>
                 /\ vcpu_thread_ids = <<>>)
    /\ [][(main_pc # "idle" /\ main_pc' # "idle") =>
              VcpusOf(threads') \o vcpus' = VcpusOf(threads) \o vcpus]_vars

\* run of a configured VMM has returned: its threads were spawned, cleared
\* running and were joined.
C24_RunOfConfiguredVmmReturned ==
    /\ last_call.op = "run" /\ last_call.ret = "returned"
    /\ configured
    /\ ~running
    /\ main_pc = "idle"

\* C26: whenever a vCPU thread exists, and whenever join_vcpus is sending
\* or has sent SIGUSR1, the disposition of SIGUSR1 is the no-op handler: no
\* SIGUSR1 is pending or delivered under the default disposition.
C26_HandlerBeforeThreadsAndSignals ==
    (\/ threads # <<>>
     \/ main_pc \in {"start_vcpus", "loop", "join_signal", "join_wait"})
        => sigusr1 = "handler"

\* join_vcpus has sent SIGUSR1 to a thread that is in the run ioctl.
C26_SignalPendingForThreadInIoctl ==
    \E t \in DOMAIN threads :
        threads[t].sig /\ threads[t].pc = "kvm" /\ sigusr1 = "handler"

\* C27: when the irqchip is created the VM has exactly memslot 0 for
\* [0, memory_size) with flags 0; when the serial eventfd is bound to IRQ 4
\* the irqchip exists; all three are in place, requested in that order,
\* before any vCPU is created; and when a step fails new returns an error:
\* no VMM exists and no vCPU is ever created.
C27_MemslotIrqchipIrqfdBeforeVcpus ==
    /\ nw_irqchip =>
           nw_memslots = {[slot |-> 0, guest_phys_addr |-> 0,
                           memory_size |-> nw_memory_size, flags |-> 0]}
    /\ nw_irqfds # {} =>
           nw_irqchip /\ nw_irqfds = {[fd |-> "serial", gsi |-> 4]}
    /\ nw_vcpus # {} =>
           /\ nw_irqfds # {}
           /\ IsPrefix(<<"set_user_memory_region", "create_irq_chip",
                         "register_irqfd", "create_vcpu">>, nw_log)
    /\ nw_vmm <=> nw_ret = "Ok"
    /\ nw_ret \notin {"none", "Ok"} =>
           nw_vcpus = {} /\ nw_memslots = {} /\ ~nw_irqchip /\ nw_irqfds = {}

\* configure has created a vCPU on the VMM new returned.
C27_VcpuCreatedAfterNew ==
    /\ nw_ret = "Ok"
    /\ nw_vcpus = {0}
    /\ nw_memory_size = GiB

\* C28: once host stdin is at end of input (closed and drained), the
\* stdin subscriber is eventually removed from the event manager, for a
\* pipe as for any other descriptor, and process is not called again once
\* input.read has returned 0.
C28_RemovedAtEof ==
    /\ (ev_closed /\ ev_pending = 0) ~> ~ev_registered
    /\ []~ev_after_eof

\* C29: a call of process in which input.read fails, or in which the
\* enqueue into the RX FIFO fails, leaves the subscriber registered, and it
\* is still registered when the next event comes.
C29_ErrorsKeepSubscriber ==
    /\ [](ev_last \in {"read_error", "enqueue_error"} => ev_registered)
    /\ [][(\/ ev_errors' # ev_errors
           \/ ev_pending' < ev_pending /\ ev_last' = "enqueue_error")
              => ev_registered']_vars

\* After a failed read a later readable event was handled and the last of
\* the host's bytes enqueued.
C29_DataHandledAfterErrors ==
    /\ ev_errors > 0
    /\ ev_last = "data"
    /\ ev_pending = 0
    /\ ev_written = MaxStdinWritten
    /\ ev_registered

\* C30: a device whose activations have all failed is as new: it has no
\* handler, both queues are in its virtio config, no handler is subscribed
\* to the event manager, no queue-notify ioevent is registered, and no
\* panic has unwound the vCPU thread.
C30_FailedActivateLeavesNothing ==
    (net_activate_calls > 0 /\ ~net_handler) =>
        /\ ~net_panicked
        /\ Len(net_queues) = 2
        /\ net_subscribers = 0
        /\ net_taps_open = 0
        /\ net_ioevents = 0

\* C37: a call of add_net_device that returns an error leaves the VMM as
\* it was: the ranges handed out, the IRQ counter, the cmdline fragments and
\* the net device are those of before the call.
C37_FailedAddLeavesVmmUnchanged ==
    [][(/\ alloc_results' # alloc_results
        /\ last_call'.op = "add_net_device"
        /\ last_call'.ret \in {"AddressAllocation", "Virtio"})
          => UNCHANGED <<virtio_mmio_allocator, irq_allocator,
                         cmdline_components, virtio_net>>]_vars

\* C38: every fragment contributed to the kernel command line is the
\* fragment of the net device the VMM holds, and every vCPU was handed the
\* device of every fragment the kernel was loaded with.
C38_FragmentsDescribeHeldDevice ==
    /\ \A i \in DOMAIN cmdline_components :
           /\ virtio_net # NoDevice
           /\ cmdline_components[i]
                  = cmdline_string(virtio_net.mmio_range, virtio_net.irq)
    /\ kernel_cmdline # NotLoaded =>
           \A i \in DOMAIN kernel_cmdline : \A v \in DOMAIN vcpus :
               /\ vcpus[v].virtio_net # NoDevice
               /\ kernel_cmdline[i]
                      = cmdline_string(vcpus[v].virtio_net.mmio_range,
                                       vcpus[v].virtio_net.irq)

\* C39: every call of allocate_ip returns, without a panic and without the
\* scan counter passing u32::MAX, either PoolExhausted or the text of an
\* address of [start_ip, end_ip].
C39_AllocateReturnsInPoolOrExhausted ==
    ip_last.op = "allocate_ip" =>
        \/ ip_last.result = PoolExhausted
        \/ /\ ip_last.result.kind = "Ok"
           /\ IsIpv4Text(ip_last.result.value)
           /\ ParseIpv4(ip_last.result.value) \in PoolAddresses(ip_pool)

\* C36: in the persisted map no two VM IDs hold the same address and every
\* held address is an address of [start_ip, end_ip], after any sequence of
\* allocate_ip and release_ip calls (the calls of concurrent threads run one
\* at a time, each under the lock from its first line to its return).
C36_HeldAddressesDistinctInPool ==
    \A v, w \in DOMAIN read_state(ip_file) :
        /\ v # w => read_state(ip_file)[v] # read_state(ip_file)[w]
        /\ IsIpv4Text(read_state(ip_file)[v])
        /\ ParseIpv4(read_state(ip_file)[v]) \in PoolAddresses(ip_pool)

\* C31: after activate has returned Ok, the handler's RX queue is the queue
\* the device held at place 0 and its TX queue the one at place 1, and its
\* rx_ioevent and tx_ioevent are the eventfds registered with the VM at
\* mmio_range.start + 0x050 with datamatch 0 and 1.
C31_HandlerQueuesAndIoevents ==
    ac_ret = "Ok" =>
        /\ ac_handler.rxq.index = RXQ_INDEX
        /\ ac_handler.txq.index = TXQ_INDEX
        /\ [addr |-> ac_range + 80 \div AddrUnit, datamatch |-> 0,
            fd |-> ac_handler.rx_ioevent] \in ac_vm_ioevents
        /\ [addr |-> ac_range + 80 \div AddrUnit, datamatch |-> 1,
            fd |-> ac_handler.tx_ioevent] \in ac_vm_ioevents

\* An activation that succeeded on the second range, the guest having given
\* the two queues different sizes.
C31_ActivatedWithUnequalQueues ==
    /\ ac_ret = "Ok"
    /\ ac_range = MMIO_GAP_START + NET_MMIO_SIZE
    /\ ac_queues = <<>>
    /\ ac_handler.rxq.queue.size # ac_handler.txq.queue.size

\* C32: no thread holds the mutex of a device while it is in a TAP call or
\* in a call of the event manager: the vCPU thread holds neither the
\* virtio-net device's mutex nor the serial's in setup_tap and in
\* call_blocking, and the thread of the event loop holds none in epoll_wait.
C32_NoDeviceMutexAcrossTapOrEpoll ==
    /\ ac_pc \in {"setup_tap", "call_blocking"}
          => ac_held["vcpu"] \cap {"virtio_net", "serial"} = {}
    /\ ac_main = "epoll_wait"
          => ac_held["main"] \cap {"virtio_net", "serial"} = {}

\* C33: no thread holds two mutexes at once.
C33_NoNestedLocks ==
    \A t \in Threads : Cardinality(ac_held[t]) <= 1

\* C35: the blocking call of register_handler always completes, and
\* join_vcpus, once entered, always returns.
C35_ActivationCannotBlockShutdown ==
    /\ (ac_pc = "call_blocking") ~> (ac_pc # "call_blocking")
    /\ (ac_main = "join_vcpus") ~> (ac_main = "returned")

\* C34: run_initramfs always eventually returns, with the timeout error
\* only after having killed a child that had not exited.
C34_RunInitramfsReturns ==
    /\ <>(qt_pc = "returned")
    /\ [](qt_result = "timeout" => qt_child = "killed")

====
